---- MODULE Spec2Model ----
(***************************************************************************)
(* A model of protocol-core: the AES mode engine (digester/aes_digester),  *)
(* the CRC comparison (utils/crc_util), the hex/byte helpers               *)
(* (utils/hex_util) and the field encoder (core/parts/traits).             *)
(*                                                                         *)
(* The library is a set of pure functions and small objects.  Each family  *)
(* has its own specification: its Init draws the inputs from bounded sets, *)
(* its actions apply the functions as the code computes them, and `pc`     *)
(* records how far the calling program has come.  The variables of the     *)
(* families that a specification does not exercise stay at their idle      *)
(* values.                                                                 *)
(*                                                                         *)
(* Bytes are the integers 0..255.  Strings are sequences of one-character  *)
(* strings.  A Result<T, E> is a record: Ok(v), Err(e), or Panic for a     *)
(* call that unwinds instead of returning.                                 *)
(***************************************************************************)
EXTENDS Integers, Sequences, FiniteSets, TLC

VARIABLES
    pc,         \* position of the calling program
    cipher,     \* AesCipher {cipher (the key schedule, here the key), mode}
    iv,         \* the iv argument of encrypt / decrypt
    data,       \* the data argument of encrypt
    encrypted,  \* the result of cipher.encrypt(data, iv)
    decrypted,  \* the result of cipher.decrypt(.., iv)
    call,       \* the arguments of a call of a pure function
    ret,        \* what that call returned
    writer,     \* the Writer driven by auto_process
    capsule,    \* a RawCapsule
    chamber,    \* the RawChamber built from the capsule and a peer capsule
    pair,       \* a TransportPair
    reader,     \* the frame Reader working on the capsule
    cache,      \* DEVICE_CACHE: the entries of the moka cache
    now,        \* the clock the cache reads, in seconds
    threads,    \* what each thread using the cache is doing
    stored,     \* per key, the latest store not followed by a remove
    carrier,    \* a TransportCarrier
    slot_set    \* set_cipher_slot has been called on the carrier

vars ==
    <<pc, cipher, iv, data, encrypted, decrypted, call, ret, writer,
      capsule, chamber, pair, reader, cache, now, threads, stored,
      carrier, slot_set>>

aesVars == <<cipher, iv, data, encrypted, decrypted>>

callVars == <<call, ret, writer>>

objVars == <<capsule, chamber, pair>>

\* An object that has not been constructed.
Unbuilt == [tag |-> "Unbuilt"]

ObjectsUnbuilt == capsule = Unbuilt /\ chamber = Unbuilt /\ pair = Unbuilt

\* The variables of the frame engine.
cacheVars == <<cache, now, threads, stored>>

carrierVars == <<carrier, slot_set>>

engineVars == <<reader, cacheVars, carrierVars>>

CacheIdle == cache = Unbuilt /\ now = 0 /\ threads = Unbuilt /\ stored = Unbuilt

CarrierIdle == carrier = Unbuilt /\ slot_set = FALSE

EngineIdle == reader = Unbuilt /\ CacheIdle /\ CarrierIdle

(***************************************************************************)
(* Results                                                                 *)
(***************************************************************************)
Ok(v) == [tag |-> "Ok", val |-> v]

Err(e) == [tag |-> "Err", err |-> e]

Panic == [tag |-> "Panic"]

NotRun == [tag |-> "NotRun"]

IsOk(r) == r.tag = "Ok"

IsErr(r) == r.tag = "Err"

(***************************************************************************)
(* Bytes                                                                   *)
(***************************************************************************)
Byte == 0..255

RECURSIVE BitXor(_, _)
BitXor(a, b) ==
    IF a = 0 THEN b
    ELSE IF b = 0 THEN a
    ELSE (((a % 2) + (b % 2)) % 2) + (2 * BitXor(a \div 2, b \div 2))

XorBlock(a, b) == [i \in 1..Len(a) |-> BitXor(a[i], b[i])]

Reverse(s) == [i \in 1..Len(s) |-> s[Len(s) + 1 - i]]

Min(a, b) == IF a < b THEN a ELSE b

Max(a, b) == IF a > b THEN a ELSE b

(***************************************************************************)
(* The block primitive.  Aes128 comes from the `aes` crate; the mode       *)
(* engine uses only that encrypt_block is a keyed permutation of 16-byte   *)
(* blocks and decrypt_block its inverse.  The model has a keyed            *)
(* permutation in which every output byte depends on every input byte, in  *)
(* both directions, and which is not linear over XOR, so that a wrong      *)
(* chaining or a wrong block shows in the output.                          *)
(***************************************************************************)
BlockSize == 16

SBox(b) == ((5 * b) + 17) % 256

SBoxInv(c) == ((c + 239) * 205) % 256

RECURSIVE XorAll(_, _)
XorAll(s, n) == IF n = 0 THEN 0 ELSE BitXor(s[n], XorAll(s, n - 1))

EncryptBlock(key, block) ==
    LET m == XorBlock(block, key)
        t == XorAll(m, BlockSize)
    IN  [i \in 1..BlockSize |-> SBox(BitXor(m[(i % BlockSize) + 1], t))]

DecryptBlock(key, block) ==
    LET u == [j \in 1..BlockSize |-> SBoxInv(block[((j + BlockSize - 2) % BlockSize) + 1])]
        t == XorAll(u, BlockSize)
    IN  [j \in 1..BlockSize |-> BitXor(BitXor(u[j], t), key[j])]

\* data.chunks(16): chunk number i (from 0), the last one possibly short.
Chunk(d, i) == SubSeq(d, BlockSize * i + 1, Min(BlockSize * (i + 1), Len(d)))

NumChunks(d) == (Len(d) + BlockSize - 1) \div BlockSize

(***************************************************************************)
(* PKCS#7                                                                  *)
(***************************************************************************)
pkcs7_pad(d) ==
    LET padding_len == BlockSize - (Len(d) % BlockSize)
    IN  d \o [i \in 1..padding_len |-> padding_len]

pkcs7_unpad(d) ==
    IF Len(d) = 0 THEN Ok(<<>>)
    ELSE LET padding_byte == d[Len(d)]
             padding_len  == padding_byte
         IN  IF padding_len = 0 \/ padding_len > 16 THEN Err("Invalid padding")
             ELSE IF padding_len > Len(d) THEN Panic  \* data.len() - padding_len
             ELSE IF \E i \in (Len(d) - padding_len + 1)..Len(d) : d[i] # padding_byte
                  THEN Err("Invalid padding")
             ELSE Ok(SubSeq(d, 1, Len(d) - padding_len))

(***************************************************************************)
(* ECB                                                                     *)
(***************************************************************************)
RECURSIVE EcbLoop(_, _, _, _)
EcbLoop(key, d, enc, i) ==
    IF i >= NumChunks(d) THEN <<>>
    ELSE (IF enc THEN EncryptBlock(key, Chunk(d, i))
                 ELSE DecryptBlock(key, Chunk(d, i)))
         \o EcbLoop(key, d, enc, i + 1)

encrypt_ecb(key, d) == Ok(EcbLoop(key, pkcs7_pad(d), TRUE, 0))

decrypt_ecb(key, d) ==
    IF Len(d) % 16 # 0 THEN Err("Data length must be multiple of 16 bytes")
    ELSE pkcs7_unpad(EcbLoop(key, d, FALSE, 0))

(***************************************************************************)
(* CBC                                                                     *)
(***************************************************************************)
RECURSIVE CbcEncLoop(_, _, _, _)
CbcEncLoop(key, d, prev_block, i) ==
    IF i >= NumChunks(d) THEN <<>>
    ELSE LET block == EncryptBlock(key, XorBlock(Chunk(d, i), prev_block))
         IN  block \o CbcEncLoop(key, d, block, i + 1)

RECURSIVE CbcDecLoop(_, _, _, _)
CbcDecLoop(key, d, prev_block, i) ==
    IF i >= NumChunks(d) THEN <<>>
    ELSE LET current_block == Chunk(d, i)
             block == XorBlock(DecryptBlock(key, current_block), prev_block)
         IN  block \o CbcDecLoop(key, d, current_block, i + 1)

RECURSIVE CbcDecLoopNoChain(_, _, _, _)
CbcDecLoopNoChain(key, d, prev_block, i) ==
    IF i >= NumChunks(d) THEN <<>>
    ELSE LET current_block == Chunk(d, i)
             block == XorBlock(DecryptBlock(key, current_block), prev_block)
         IN  block \o CbcDecLoopNoChain(key, d, prev_block, i + 1)

encrypt_cbc(key, d, v) ==
    IF Len(v) # 16 THEN Err("IV must be 16 bytes")
    ELSE Ok(CbcEncLoop(key, pkcs7_pad(d), v, 0))

decrypt_cbc_no_chain(key, d, v) ==
    IF Len(v) # 16 THEN Err("IV must be 16 bytes")
    ELSE IF Len(d) % 16 # 0 THEN Err("Data length must be multiple of 16 bytes")
    ELSE pkcs7_unpad(CbcDecLoopNoChain(key, d, v, 0))

decrypt_cbc(key, d, v) ==
    IF Len(v) # 16 THEN Err("IV must be 16 bytes")
    ELSE IF Len(d) % 16 # 0 THEN Err("Data length must be multiple of 16 bytes")
    ELSE pkcs7_unpad(CbcDecLoop(key, d, v, 0))

(***************************************************************************)
(* CFB.  GenericArray::clone_from_slice panics when the slice is not       *)
(* exactly 16 bytes long; the loop calls it on the chunk's output (encrypt)*)
(* or on the chunk (decrypt) before it looks at the length.                *)
(***************************************************************************)
RECURSIVE CfbEncLoop(_, _, _, _)
CfbEncLoop(key, d, feedback, i) ==
    IF i >= NumChunks(d) THEN [panic |-> FALSE, out |-> <<>>]
    ELSE LET chunk  == Chunk(d, i)
             block  == EncryptBlock(key, feedback)
             output == [j \in 1..Len(chunk) |-> BitXor(chunk[j], block[j])]
         IN  IF Len(output) # BlockSize
             THEN [panic |-> TRUE, out |-> <<>>]   \* clone_from_slice(&output)
             ELSE LET rest == CfbEncLoop(key, d, output, i + 1)
                  IN  [panic |-> rest.panic, out |-> output \o rest.out]

RECURSIVE CfbDecLoop(_, _, _, _)
CfbDecLoop(key, d, feedback, i) ==
    IF i >= NumChunks(d) THEN [panic |-> FALSE, out |-> <<>>]
    ELSE LET chunk  == Chunk(d, i)
             block  == EncryptBlock(key, feedback)
             output == [j \in 1..Len(chunk) |-> BitXor(chunk[j], block[j])]
         IN  IF Len(chunk) # BlockSize
             THEN [panic |-> TRUE, out |-> <<>>]   \* clone_from_slice(chunk)
             ELSE LET rest == CfbDecLoop(key, d, chunk, i + 1)
                  IN  [panic |-> rest.panic, out |-> output \o rest.out]

encrypt_cfb(key, d, v) ==
    IF Len(v) # 16 THEN Err("IV must be 16 bytes")
    ELSE LET r == CfbEncLoop(key, d, v, 0)
         IN  IF r.panic THEN Panic ELSE Ok(r.out)

decrypt_cfb(key, d, v) ==
    IF Len(v) # 16 THEN Err("IV must be 16 bytes")
    ELSE LET r == CfbDecLoop(key, d, v, 0)
         IN  IF r.panic THEN Panic ELSE Ok(r.out)

(***************************************************************************)
(* CTR.  The counter is a u128: the model carries it as its 16 big-endian  *)
(* bytes (u128::from_be_bytes / to_be_bytes), and wrapping_add(1) is the   *)
(* increment with carry that wraps at 2^128.                               *)
(***************************************************************************)
RECURSIVE wrapping_add_1_at(_, _)
wrapping_add_1_at(counter, k) ==
    IF k = 0 THEN counter
    ELSE IF counter[k] = 255
         THEN wrapping_add_1_at([counter EXCEPT ![k] = 0], k - 1)
         ELSE [counter EXCEPT ![k] = counter[k] + 1]

wrapping_add_1_no_carry(counter) ==
    [counter EXCEPT ![Len(counter)] = (counter[Len(counter)] + 1) % 256]

wrapping_add_1(counter) == wrapping_add_1_at(counter, Len(counter))

RECURSIVE CtrLoop(_, _, _, _)
CtrLoop(key, d, counter, i) ==
    IF i >= NumChunks(d) THEN <<>>
    ELSE LET chunk == Chunk(d, i)
             block == EncryptBlock(key, counter)
         IN  [j \in 1..Len(chunk) |-> BitXor(chunk[j], block[j])]
             \o CtrLoop(key, d, wrapping_add_1(counter), i + 1)

encrypt_ctr_zero_extend_iv(key, d, v) ==
    Ok(CtrLoop(key, d, [i \in 1..16 |-> IF i <= Len(v) THEN v[i] ELSE 0], 0))

encrypt_ctr(key, d, v) ==
    IF Len(v) # 16 THEN Err("IV must be 16 bytes")
    ELSE Ok(CtrLoop(key, d, v, 0))

decrypt_ctr(key, d, v) == encrypt_ctr(key, d, v)

(***************************************************************************)
(* OFB                                                                     *)
(***************************************************************************)
RECURSIVE OfbLoop(_, _, _, _)
OfbLoop(key, d, feedback, i) ==
    IF i >= NumChunks(d) THEN <<>>
    ELSE LET chunk == Chunk(d, i)
             block == EncryptBlock(key, feedback)
         IN  [j \in 1..Len(chunk) |-> BitXor(chunk[j], block[j])]
             \o OfbLoop(key, d, block, i + 1)

encrypt_ofb(key, d, v) ==
    IF Len(v) # 16 THEN Err("IV must be 16 bytes")
    ELSE Ok(OfbLoop(key, d, v, 0))

decrypt_ofb(key, d, v) == encrypt_ofb(key, d, v)

(***************************************************************************)
(* CTS                                                                     *)
(***************************************************************************)
encrypt_cts_unpadded(key, d, v) ==
    IF Len(v) # 16 THEN Err("IV must be 16 bytes")
    ELSE LET block_size  == 16
             data_len    == Len(d)
             full_blocks == data_len \div block_size
             remainder   == data_len % block_size
         IN
         IF data_len < block_size
         THEN Err("Data must be at least one block for CTS mode")
         ELSE IF remainder = 0 THEN Ok(CbcEncLoop(key, d, v, 0))
         ELSE LET main_encrypted ==
                      IF full_blocks > 1
                      THEN encrypt_cbc(key, SubSeq(d, 1, (full_blocks - 1) * block_size), v).val
                      ELSE <<>>
                  second_last_block ==
                      SubSeq(d, (full_blocks - 1) * block_size + 1, full_blocks * block_size)
                  last_block == SubSeq(d, full_blocks * block_size + 1, data_len)
                  padded_last ==
                      last_block \o [j \in 1..(block_size - Len(last_block)) |-> 0]
                  temp_block == EncryptBlock(key, padded_last)
                  second_last_encrypted == EncryptBlock(key, second_last_block)
              IN  Ok(main_encrypted \o SubSeq(temp_block, 1, remainder)
                     \o second_last_encrypted)

encrypt_cts(key, d, v) ==
    IF Len(v) # 16 THEN Err("IV must be 16 bytes")
    ELSE LET block_size  == 16
             data_len    == Len(d)
             full_blocks == data_len \div block_size
             remainder   == data_len % block_size
         IN
         IF data_len < block_size
         THEN Err("Data must be at least one block for CTS mode")
         ELSE IF remainder = 0 THEN encrypt_cbc(key, d, v)
         ELSE LET main_encrypted ==
                      IF full_blocks > 1
                      THEN encrypt_cbc(key, SubSeq(d, 1, (full_blocks - 1) * block_size), v).val
                      ELSE <<>>
                  second_last_block ==
                      SubSeq(d, (full_blocks - 1) * block_size + 1, full_blocks * block_size)
                  last_block == SubSeq(d, full_blocks * block_size + 1, data_len)
                  padded_last ==
                      last_block \o [j \in 1..(block_size - Len(last_block)) |-> 0]
                  temp_block == EncryptBlock(key, padded_last)
                  second_last_encrypted == EncryptBlock(key, second_last_block)
              IN  Ok(main_encrypted \o SubSeq(temp_block, 1, remainder)
                     \o second_last_encrypted)

decrypt_cts(key, d, v) ==
    IF Len(v) # 16 THEN Err("IV must be 16 bytes")
    ELSE LET block_size  == 16
             data_len    == Len(d)
             full_blocks == data_len \div block_size
             remainder   == data_len % block_size
         IN
         IF data_len < block_size
         THEN Err("Data must be at least one block for CTS mode")
         ELSE IF remainder = 0 THEN decrypt_cbc(key, d, v)
         ELSE LET main_decrypted ==
                      IF full_blocks > 1
                      THEN decrypt_cbc(key, SubSeq(d, 1, (full_blocks - 1) * block_size), v)
                      ELSE Ok(<<>>)
                  stolen_part ==
                      SubSeq(d, (full_blocks - 1) * block_size + 1,
                                (full_blocks - 1) * block_size + remainder)
                  last_block ==
                      SubSeq(d, (full_blocks - 1) * block_size + remainder + 1, data_len)
                  temp_block == DecryptBlock(key, last_block)
                  stolen_block == stolen_part \o SubSeq(temp_block, remainder + 1, block_size)
                  stolen_decrypted == DecryptBlock(key, stolen_block)
              IN  IF ~IsOk(main_decrypted) THEN main_decrypted   \* the ? operator
                  ELSE Ok(main_decrypted.val \o temp_block
                          \o SubSeq(stolen_decrypted, 1, remainder))

(***************************************************************************)
(* NONE, and the dispatch on the mode                                      *)
(***************************************************************************)
encrypt_none(d) == Ok(d)

decrypt_none(d) == Ok(d)

AesMode == {"NONE", "CBC", "CFB", "CTR", "CTS", "ECB", "OFB"}

encrypt(c, d, v) ==
    CASE c.mode = "ECB"  -> encrypt_ecb(c.key, d)
      [] c.mode = "CBC"  -> encrypt_cbc(c.key, d, v)
      [] c.mode = "CFB"  -> encrypt_cfb(c.key, d, v)
      [] c.mode = "CTR"  -> encrypt_ctr(c.key, d, v)
      [] c.mode = "OFB"  -> encrypt_ofb(c.key, d, v)
      [] c.mode = "CTS"  -> encrypt_cts(c.key, d, v)
      [] c.mode = "NONE" -> encrypt_none(d)

decrypt(c, d, v) ==
    CASE c.mode = "ECB"  -> decrypt_ecb(c.key, d)
      [] c.mode = "CBC"  -> decrypt_cbc(c.key, d, v)
      [] c.mode = "CFB"  -> decrypt_cfb(c.key, d, v)
      [] c.mode = "CTR"  -> decrypt_ctr(c.key, d, v)
      [] c.mode = "OFB"  -> decrypt_ofb(c.key, d, v)
      [] c.mode = "CTS"  -> decrypt_cts(c.key, d, v)
      [] c.mode = "NONE" -> decrypt_none(d)

(***************************************************************************)
(* The inputs of the cipher engine                                         *)
(***************************************************************************)
NumKeys == 2

NumIvs == 3

NumSeeds == 2

MaxBlocks == 2

AesKey(s) == [i \in 1..16 |-> ((s * 37) + (i * 11)) % 256]

\* Iv(1) is the largest counter, Iv(2) ends in two 0xFF bytes (a carry).
AesIv(s) ==
    [i \in 1..16 |->
        IF s = 1 THEN 255
        ELSE IF s = 2 THEN (IF i > 14 THEN 255 ELSE i * 3)
        ELSE ((i * 29) + (5 * s)) % 256]

\* The iv of main.rs's test_aes: one byte.
ShortIv == <<1>>

\* An iv of 17 bytes.
LongIv == AesIv(1) \o <<0>>

\* Seed 1 is a buffer of 0x01 bytes: a plaintext that ends like a pad.
AesData(n, s) ==
    [i \in 1..n |-> IF s = 1 THEN 1 ELSE ((s * 53) + (i * 7)) % 256]

DataLens ==
    {0, 1, 15} \cup {(BlockSize * k) + r : k \in 1..MaxBlocks, r \in {0, 1}}

IdleCall == [fn |-> "none"]

IdleWriter == [bytes |-> <<>>, fields |-> <<>>]

InitAes ==
    /\ pc = "aes_new"
    /\ cipher \in {[key |-> AesKey(s), mode |-> m] : s \in 1..NumKeys, m \in AesMode}
    /\ iv \in {AesIv(s) : s \in 1..NumIvs} \cup {ShortIv, LongIv, <<>>}
    /\ data \in {AesData(n, s) : n \in DataLens, s \in 1..NumSeeds}
    /\ encrypted = NotRun
    /\ decrypted = NotRun
    /\ call = IdleCall
    /\ ret = NotRun
    /\ writer = IdleWriter
    /\ ObjectsUnbuilt
    /\ EngineIdle

\* cipher.encrypt(data, iv)
Encrypt ==
    /\ pc = "aes_new"
    /\ encrypted' = encrypt(cipher, data, iv)
    /\ pc' = "aes_encrypted"
    /\ UNCHANGED <<cipher, iv, data, decrypted, callVars, objVars, engineVars>>

\* cipher.decrypt(&encrypted, iv), as test_aes calls it on encrypt's result
Decrypt ==
    /\ pc = "aes_encrypted"
    /\ IsOk(encrypted)
    /\ decrypted' = decrypt(cipher, encrypted.val, iv)
    /\ pc' = "aes_decrypted"
    /\ UNCHANGED <<cipher, iv, data, encrypted, callVars, objVars, engineVars>>

\* cipher.decrypt(data, iv) on a buffer that encrypt did not produce
DecryptInput ==
    /\ pc = "aes_new"
    /\ decrypted' = decrypt(cipher, data, iv)
    /\ pc' = "aes_decrypted_input"
    /\ UNCHANGED <<cipher, iv, data, encrypted, callVars, objVars, engineVars>>

NextAes == Encrypt \/ Decrypt \/ DecryptInput

SpecAes == InitAes /\ [][NextAes]_vars

(***************************************************************************)
(* Claims about the cipher engine                                          *)
(***************************************************************************)

\* C1: in mode ECB (which ignores the iv) or CBC with a 16-byte iv, encrypt
\* succeeds on every plaintext and decrypt of its result with the same iv
\* returns exactly the plaintext.
C1_EcbCbcRoundTrip ==
    (cipher.mode = "ECB" \/ (cipher.mode = "CBC" /\ Len(iv) = 16)) =>
        /\ pc = "aes_encrypted" => IsOk(encrypted)
        /\ pc = "aes_decrypted" => decrypted = Ok(data)

C1_Witness ==
    /\ pc = "aes_decrypted"
    /\ cipher.mode = "CBC"
    /\ Len(data) = 33
    /\ decrypted = Ok(data)

\* C2: in mode CTS with a 16-byte iv, every plaintext of at least 16 bytes,
\* block-aligned or not, is recovered by decrypt(encrypt(p, iv), iv).
C2_CtsRoundTrip ==
    (pc = "aes_decrypted" /\ cipher.mode = "CTS" /\ Len(iv) = 16 /\ Len(data) >= 16)
        => decrypted = Ok(data)

\* C3: in mode CFB with a 16-byte iv, encrypt and decrypt return Ok for every
\* input length, the output is as long as the input, and the round trip
\* returns the plaintext.
C3_CfbTotalRoundTrip ==
    (cipher.mode = "CFB" /\ Len(iv) = 16) =>
        /\ pc = "aes_encrypted" =>
              IsOk(encrypted) /\ Len(encrypted.val) = Len(data)
        /\ pc = "aes_decrypted_input" =>
              IsOk(decrypted) /\ Len(decrypted.val) = Len(data)
        /\ pc = "aes_decrypted" => decrypted = Ok(data)

\* (iv as a 128-bit big-endian integer + n) mod 2^128, digit by digit from the
\* least significant byte, for the reference keystream of C4.
RECURSIVE AddU128(_, _, _)
AddU128(v, k, carry) ==
    IF k = 0 THEN v
    ELSE AddU128([v EXCEPT ![k] = (v[k] + carry) % 256], k - 1, (v[k] + carry) \div 256)

CtrKeystreamChunk(i) ==
    LET block == EncryptBlock(cipher.key, AddU128(iv, 16, i))
        chunk == Chunk(data, i)
    IN  [j \in 1..Len(chunk) |-> BitXor(chunk[j], block[j])]

\* C4: in modes OFB and CTR with a 16-byte iv the output is as long as the
\* input, decrypt returns what encrypt returns on the same input, the
\* transform applied twice returns the input, and in CTR chunk i of the
\* output is chunk i of the input XOR the block cipher of (iv + i) mod 2^128.
C4_OfbCtrStream ==
    (cipher.mode \in {"OFB", "CTR"} /\ Len(iv) = 16) =>
        /\ pc = "aes_encrypted" =>
              /\ IsOk(encrypted)
              /\ Len(encrypted.val) = Len(data)
              /\ cipher.mode = "CTR" =>
                    \A i \in 0..(NumChunks(data) - 1) :
                        Chunk(encrypted.val, i) = CtrKeystreamChunk(i)
        /\ pc = "aes_decrypted_input" => decrypted = encrypt(cipher, data, iv)
        /\ pc = "aes_decrypted" => decrypted = Ok(data)

C4_Witness ==
    /\ pc = "aes_decrypted"
    /\ cipher.mode = "CTR"
    /\ iv = AesIv(1)
    /\ Len(data) = 33
    /\ decrypted = Ok(data)
    /\ encrypted.val # data

(***************************************************************************)
(* hex_util: strings.  A string is a sequence of one-character strings.    *)
(***************************************************************************)
UpperDigits ==
    <<"0", "1", "2", "3", "4", "5", "6", "7", "8", "9", "A", "B", "C", "D", "E", "F">>

LowerDigits ==
    <<"0", "1", "2", "3", "4", "5", "6", "7", "8", "9", "a", "b", "c", "d", "e", "f">>

IsHexChar(c) == \E n \in 1..16 : UpperDigits[n] = c \/ LowerDigits[n] = c

\* The value of a hexadecimal digit, either letter case.
HexVal(c) == (CHOOSE n \in 1..16 : UpperDigits[n] = c \/ LowerDigits[n] = c) - 1

IsAsciiDigit(c) == \E n \in 1..10 : UpperDigits[n] = c

IsWhitespace(c) == c = " "

\* hex::decode: an even number of hexadecimal digits, two per byte.
HexDecodeOk(s) == Len(s) % 2 = 0 /\ \A i \in 1..Len(s) : IsHexChar(s[i])

HexDecode(s) ==
    [i \in 1..(Len(s) \div 2) |-> (16 * HexVal(s[(2 * i) - 1])) + HexVal(s[2 * i])]

\* hex::encode_upper
HexEncodeUpper(bytes) ==
    [i \in 1..(2 * Len(bytes)) |->
        IF i % 2 = 1 THEN UpperDigits[(bytes[(i + 1) \div 2] \div 16) + 1]
                     ELSE UpperDigits[(bytes[i \div 2] % 16) + 1]]

is_bcd(s) == \A i \in 1..Len(s) : IsAsciiDigit(s[i])

is_hex(s) == HexDecodeOk(s)

is_ascii_hex(s) ==
    IF ~HexDecodeOk(s) THEN FALSE
    ELSE \A i \in 1..(Len(s) \div 2) : HexDecode(s)[i] <= 127

ensure_is_machine_code(s) ==
    IF is_hex(s) \/ is_ascii_hex(s) \/ is_bcd(s)
    THEN Ok(<<>>)
    ELSE Err([kind |-> "NotMachineCode"])

hex_to_bytes(s) ==
    IF ~IsOk(ensure_is_machine_code(s)) THEN ensure_is_machine_code(s)
    ELSE IF HexDecodeOk(s) THEN Ok(HexDecode(s))
    ELSE Err([kind |-> "NotHex"])

bytes_to_hex(bytes) == Ok(HexEncodeUpper(bytes))

\* str::trim
RECURSIVE TrimStart(_)
TrimStart(s) ==
    IF Len(s) > 0 /\ IsWhitespace(s[1]) THEN TrimStart(Tail(s)) ELSE s

RECURSIVE TrimEnd(_)
TrimEnd(s) ==
    IF Len(s) > 0 /\ IsWhitespace(s[Len(s)])
    THEN TrimEnd(SubSeq(s, 1, Len(s) - 1))
    ELSE s

clean_hex_str(hex) ==
    LET trimmed == TrimEnd(TrimStart(hex))
    IN  IF Len(trimmed) >= 2 /\ trimmed[1] = "0" /\ trimmed[2] \in {"x", "X"}
        THEN SubSeq(trimmed, 3, Len(trimmed))
        ELSE trimmed

\* uN::from_str_radix(v, 16) on a non-empty string of at most 8 digits; a
\* leading '+' is accepted, any other non-digit is an error.
RECURSIVE RadixValue(_, _)
RadixValue(v, n) ==
    IF n = 0 THEN 0 ELSE (16 * RadixValue(v, n - 1)) + HexVal(v[n])

from_str_radix_16(v) ==
    LET digits == IF v[1] = "+" THEN Tail(v) ELSE v
    IN  IF Len(digits) = 0 \/ \E i \in 1..Len(digits) : ~IsHexChar(digits[i])
        THEN Err([kind |-> "HexParseError"])
        ELSE Ok(RadixValue(digits, Len(digits)))

\* hex_to_u16 is called by crc_util and is not defined in hex_util.rs: it is
\* modelled as hex_to_u32 with the width of a u16 (at most 4 digits).
hex_to_u16(hex) ==
    IF ~IsOk(ensure_is_machine_code(hex)) THEN ensure_is_machine_code(hex)
    ELSE LET v == clean_hex_str(hex)
         IN  IF Len(v) > 4
             THEN Err([kind |-> "HexLengthError", max_chars |-> 4, actual_chars |-> Len(v)])
             ELSE IF Len(v) = 0 THEN Ok(0)
             ELSE from_str_radix_16(v)

(***************************************************************************)
(* crc_util                                                                *)
(***************************************************************************)
\* calculate_from_bytes_and_collect_hex_and_bytes, from the u16 `res` that
\* crc_type.calculate returned.
collect_hex_and_bytes(res, swap) ==
    LET crc_bytes == IF swap THEN <<res % 256, res \div 256>>
                             ELSE <<res \div 256, res % 256>>
    IN  [hex |-> bytes_to_hex(crc_bytes).val, bytes |-> crc_bytes]

compare_crc_no_retry(crc1, crc2) ==
    LET first == hex_to_u16(crc1)
    IN  IF ~IsOk(first) THEN first
        ELSE IF first.val = crc2 THEN Ok(<<>>)
        ELSE Err([kind |-> "CrcError", ori_crc |-> first.val, calc_crc |-> crc2])

compare_crc(crc1, crc2) ==
    LET first == hex_to_u16(crc1)
    IN  IF ~IsOk(first) THEN first
        ELSE IF first.val = crc2 THEN Ok(<<>>)
        ELSE LET temp == hex_to_bytes(crc1)
             IN  IF ~IsOk(temp) THEN temp
                 ELSE LET crc1_c == bytes_to_hex(Reverse(temp.val)).val
                          second == hex_to_u16(crc1_c)
                      IN  IF ~IsOk(second) THEN second
                          ELSE IF second.val = crc2 THEN Ok(<<>>)
                          ELSE Err([kind |-> "CrcError", ori_crc |-> second.val,
                                    calc_crc |-> crc2])

(***************************************************************************)
(* The inputs of compare_crc: the checksum a frame carries, as a string,   *)
(* and the checksum computed over the frame.                               *)
(***************************************************************************)
MaxCrcChars == 5

CrcAlphabet == {"0", "1", "A", "b", "G"}

\* 0x0000, 0x0001, 0x000A, 0x00AB, 0x01AB, 0xAB01, 0xB1A0, 0xFFFF
CrcValues == {0, 1, 10, 171, 427, 43777, 45472, 65535}

CrcStrings ==
    UNION {[1..n -> CrcAlphabet] : n \in 0..MaxCrcChars}
        \cup {collect_hex_and_bytes(res, swap).hex : res \in CrcValues, swap \in BOOLEAN}

InitCrc ==
    /\ pc = "call"
    /\ call \in {[fn |-> "compare_crc", crc1 |-> c, crc2 |-> x] :
                    c \in CrcStrings, x \in CrcValues}
    /\ ret = NotRun
    /\ writer = IdleWriter
    /\ cipher = [key |-> <<>>, mode |-> "NONE"]
    /\ iv = <<>>
    /\ data = <<>>
    /\ encrypted = NotRun
    /\ decrypted = NotRun
    /\ ObjectsUnbuilt
    /\ EngineIdle

CompareCrc ==
    /\ pc = "call"
    /\ call.fn = "compare_crc"
    /\ ret' = compare_crc(call.crc1, call.crc2)
    /\ pc' = "returned"
    /\ UNCHANGED <<call, writer, aesVars, objVars, engineVars>>

NextCrc == CompareCrc

SpecCrc == InitCrc /\ [][NextCrc]_vars

\* The candidate is the hexadecimal string of at most two bytes.
IsCrcHex(c) == Len(c) <= 4 /\ HexDecodeOk(c)

\* A byte sequence read as a big-endian unsigned value.
RECURSIVE BigEndian(_, _)
BigEndian(bytes, n) ==
    IF n = 0 THEN 0 ELSE (256 * BigEndian(bytes, n - 1)) + bytes[n]

\* C5: for a candidate that is the hex of at most two bytes, compare_crc
\* returns Ok exactly when the candidate's bytes, read big-endian, or read
\* after reversing their order, give the computed value, and a CrcError
\* carrying the reversed reading and the computed value otherwise; a
\* candidate of more than four characters, or one that is not machine code,
\* never returns Ok.
C5_CompareCrc ==
    (pc = "returned" /\ call.fn = "compare_crc") =>
        LET c == call.crc1
            x == call.crc2
        IN  /\ IsCrcHex(c) =>
                LET b == HexDecode(c)
                    matches == \/ BigEndian(b, Len(b)) = x
                               \/ BigEndian(Reverse(b), Len(b)) = x
                IN  /\ matches => ret = Ok(<<>>)
                    /\ ~matches =>
                          ret = Err([kind |-> "CrcError",
                                     ori_crc |-> BigEndian(Reverse(b), Len(b)),
                                     calc_crc |-> x])
            /\ (Len(c) > 4 \/ \E i \in 1..Len(c) : ~IsHexChar(c[i])) => IsErr(ret)
            /\ ret.tag \in {"Ok", "Err"}

\* The candidate in the other byte order than the computed value is accepted.
C5_Witness ==
    /\ pc = "returned"
    /\ call.fn = "compare_crc"
    /\ call.crc1 = <<"A", "B", "0", "1">>
    /\ call.crc2 = 427
    /\ ret = Ok(<<>>)

(***************************************************************************)
(* hex_util: integer -> hex with a target byte length.  TLC's integers are *)
(* 32-bit signed, so a u32 is carried as its two 16-bit halves [hi, lo].   *)
(***************************************************************************)
RECURSIVE Pow16(_)
Pow16(k) == IF k = 0 THEN 1 ELSE 16 * Pow16(k - 1)

\* format!("{:0wX}", v) for 0 <= v < 16^w
FormatUpperHex(v, w) ==
    [i \in 1..w |-> UpperDigits[((v \div Pow16(w - i)) % 16) + 1]]

\* `number as u16`
AsU16(number) == number % 65536

\* `number as u32`
AsU32(number) == [hi |-> (number \div 65536) % 65536, lo |-> number % 65536]

FormatU32(u) == FormatUpperHex(u.hi, 4) \o FormatUpperHex(u.lo, 4)

\* The match on expected_char_length.cmp(&NATIVE_CHAR_LENGTH) that the four
\* functions share: Less truncates on the left, Greater pads on the left.
FitHex(native_hex, native_char_length, expected_byte_length, padding_char) ==
    LET expected_char_length == expected_byte_length * 2
    IN  IF expected_char_length < native_char_length
        THEN Ok(SubSeq(native_hex, native_char_length - expected_char_length + 1,
                       native_char_length))
        ELSE IF expected_char_length = native_char_length
        THEN Ok(native_hex)
        ELSE Ok([i \in 1..(expected_char_length - native_char_length) |-> padding_char]
                \o native_hex)

i32_to_hex(number, expected_byte_length) ==
    FitHex(FormatU32(AsU32(number)), 8, expected_byte_length,
           IF number < 0 THEN "F" ELSE "0")

i16_to_hex_zero_pad(number, expected_byte_length) ==
    FitHex(FormatUpperHex(AsU16(number), 4), 4, expected_byte_length, "0")

i16_to_hex(number, expected_byte_length) ==
    FitHex(FormatUpperHex(AsU16(number), 4), 4, expected_byte_length,
           IF number < 0 THEN "F" ELSE "0")

u32_to_hex(number, expected_byte_length) ==
    FitHex(FormatU32(number), 8, expected_byte_length, "0")

u16_to_hex(number, expected_byte_length) ==
    FitHex(FormatUpperHex(number, 4), 4, expected_byte_length, "0")

(***************************************************************************)
(* hex_util: cut_bytes, replace_bytes, pad_bytes_to_block_size.            *)
(* An Option<u8> is the empty sequence (None) or a one-byte sequence.      *)
(***************************************************************************)
None == <<>>

Some(b) == <<b>>

\* data.get(a..b) on a slice: None when a > b or b > len.
SliceGet(d, a, b) == IF a > b \/ b > Len(d) THEN <<>> ELSE SubSeq(d, a + 1, b)

cut_bytes(d, start_index, end_index) ==
    LET total_length == Len(d)
    IN  IF start_index = 0 /\ end_index = 0 THEN Ok(d)
        ELSE IF start_index < 0 /\ end_index < 0 /\ start_index > end_index
        THEN Err([kind |-> "InvalidRange", start |-> start_index, end |-> end_index])
        ELSE LET final_start ==
                     IF start_index < 0 THEN Max(total_length + start_index, 0)
                     ELSE Min(start_index, total_length)
                 final_end ==
                     IF end_index < 0 THEN Max(total_length + end_index, 0)
                     ELSE IF end_index = 0 THEN total_length
                     ELSE Min(end_index, total_length)
             IN  Ok(SliceGet(d, final_start, final_end))

replace_bytes(ori_bytes, start_byte_pos, end_byte_pos, rep_bytes) ==
    LET total_length == Len(ori_bytes)
        range_error == [kind |-> "InvalidRange", start |-> start_byte_pos,
                        end |-> end_byte_pos]
    IN  IF total_length = 0 THEN Err([kind |-> "InvalidInput"])
        ELSE IF Len(rep_bytes) = 0 THEN Err([kind |-> "InvalidInput"])
        ELSE IF start_byte_pos < 0 THEN Err(range_error)
        ELSE IF end_byte_pos > 0 /\ start_byte_pos > end_byte_pos THEN Err(range_error)
        ELSE IF end_byte_pos > 0 /\ end_byte_pos > total_length THEN Err(range_error)
        ELSE LET final_start == Min(start_byte_pos, total_length)
                 final_end ==
                     IF end_byte_pos > 0 THEN Min(end_byte_pos, total_length)
                     ELSE Max(total_length + end_byte_pos, 0)
             IN  IF final_start > final_end THEN Err(range_error)
                 ELSE \* result_vec.splice(final_start..final_end, replace_bytes)
                      Ok(SubSeq(ori_bytes, 1, final_start) \o rep_bytes
                         \o SubSeq(ori_bytes, final_end + 1, total_length))

\* short_by of pad_bytes_to_block_size
ShortBy(origin_length, block_size) ==
    IF origin_length = block_size THEN 0
    ELSE IF origin_length < block_size THEN block_size - origin_length
    ELSE LET remainder == origin_length % block_size
         IN  IF remainder = 0 THEN block_size ELSE block_size - remainder

ShortByNoFullBlock(origin_length, block_size) ==
    (block_size - (origin_length % block_size)) % block_size

PadBytes(d, short_by, padding_byte) ==
    IF short_by = 0 THEN Ok(d)
    ELSE IF padding_byte = None /\ short_by > 255 THEN Err([kind |-> "InvalidInput"])
    ELSE LET pad_val == IF padding_byte = None THEN short_by ELSE padding_byte[1]
         IN  Ok(d \o [i \in 1..short_by |-> pad_val])

pad_bytes_no_full_block(d, block_size, padding_byte) ==
    IF block_size = 0 THEN Err([kind |-> "InvalidInput"])
    ELSE PadBytes(d, ShortByNoFullBlock(Len(d), block_size), padding_byte)

pad_bytes_to_block_size(d, block_size, padding_byte) ==
    IF block_size = 0 THEN Err([kind |-> "InvalidInput"])
    ELSE PadBytes(d, ShortBy(Len(d), block_size), padding_byte)

\* An Option<&str>: None, or the one-element sequence holding the string.
parse_padding_hex(padding_hex) ==
    LET ph_str == IF padding_hex = None THEN <<>> ELSE padding_hex[1]
        trimmed == TrimEnd(TrimStart(ph_str))
    IN  IF Len(trimmed) = 0 THEN Ok(None)
        ELSE LET pad_bytes == hex_to_bytes(trimmed)
             IN  IF ~IsOk(pad_bytes) THEN pad_bytes
                 ELSE IF Len(pad_bytes.val) # 1 THEN Err([kind |-> "InvalidInput"])
                 ELSE Ok(Some(pad_bytes.val[1]))

pad_hex_to_block_size(hex, block_size, padding_hex) ==
    LET d == hex_to_bytes(hex)
        padding_byte == parse_padding_hex(padding_hex)
    IN  IF ~IsOk(d) THEN d
        ELSE IF ~IsOk(padding_byte) THEN padding_byte
        ELSE LET padded_bytes == pad_bytes_to_block_size(d.val, block_size, padding_byte.val)
             IN  IF ~IsOk(padded_bytes) THEN padded_bytes
                 ELSE bytes_to_hex(padded_bytes.val)

(***************************************************************************)
(* The inputs of the hex_util calls                                        *)
(***************************************************************************)
MaxBufLen == 5

MaxIndex == 7

MaxPadBlock == 4

MaxPadLen == 9

MaxHexBytes == 5

\* A buffer whose bytes tell their position: 0x11, 0x22, ...
Buf(n) == [i \in 1..n |-> (17 * i) % 256]

Indices == (0 - MaxIndex)..MaxIndex

PadBlockSizes == (0..MaxPadBlock) \cup {16, 255, 256}

PadLens == (0..MaxPadLen) \cup {16, 32, 255, 510}

I16Values == {0 - 32768, 0 - 256, 0 - 22, 0 - 1, 0, 1, 22, 255, 256, 32767}

U16Values == {0, 1, 22, 255, 256, 32768, 65514, 65535}

I32Values ==
    {(0 - 2147483647) - 1, 0 - 65537, 0 - 65536, 0 - 22, 0 - 1,
     0, 22, 65535, 65536, 2147483647}

U32Values ==
    {[hi |-> h, lo |-> l] : h \in {0, 1, 32767, 32768, 65535}, l \in {0, 22, 65514, 65535}}

PadHexStrings ==
    {<<"3", "3", "2", "2">>, <<>>, <<"3", "3">>, <<"3", "3", "2">>, <<"3", "g">>,
     <<"a", "b", "C", "D", "0", "1", "0", "2">>}

PaddingHexes ==
    {None, <<<<>>>>, <<<<" ">>>>, <<<<"0", "0">>>>, <<<<" ", "f", "F">>>>,
     <<<<"0", "0", "0", "0">>>>, <<<<"z", "z">>>>}

HexCalls ==
    {[fn |-> "pad_bytes_to_block_size", data |-> Buf(n), block_size |-> b,
      padding_byte |-> pb] :
        n \in PadLens, b \in PadBlockSizes, pb \in {None, Some(0)}}
    \cup
    {[fn |-> "pad_hex_to_block_size", hex |-> h, block_size |-> b, padding_hex |-> ph] :
        h \in PadHexStrings, b \in {0, 1, 2, 4, 8}, ph \in PaddingHexes}
    \cup
    {[fn |-> "cut_bytes", data |-> Buf(n), start_index |-> a, end_index |-> b] :
        n \in 0..MaxBufLen, a \in Indices, b \in Indices}
    \cup
    {[fn |-> "replace_bytes", ori_bytes |-> Buf(n), start_byte_pos |-> a,
      end_byte_pos |-> b, replace_bytes |-> r] :
        n \in 0..MaxBufLen, a \in Indices, b \in Indices,
        r \in {<<>>, <<238>>, <<238, 239>>}}
    \cup
    {[fn |-> f, number |-> x, expected_byte_length |-> l] :
        f \in {"i16_to_hex"}, x \in I16Values, l \in 0..MaxHexBytes}
    \cup
    {[fn |-> f, number |-> x, expected_byte_length |-> l] :
        f \in {"u16_to_hex"}, x \in U16Values, l \in 0..MaxHexBytes}
    \cup
    {[fn |-> f, number |-> x, expected_byte_length |-> l] :
        f \in {"i32_to_hex"}, x \in I32Values, l \in 0..MaxHexBytes}
    \cup
    {[fn |-> f, number32 |-> x, expected_byte_length |-> l] :
        f \in {"u32_to_hex"}, x \in U32Values, l \in 0..MaxHexBytes}

InitHex ==
    /\ pc = "call"
    /\ call \in HexCalls
    /\ ret = NotRun
    /\ writer = IdleWriter
    /\ cipher = [key |-> <<>>, mode |-> "NONE"]
    /\ iv = <<>>
    /\ data = <<>>
    /\ encrypted = NotRun
    /\ decrypted = NotRun
    /\ ObjectsUnbuilt
    /\ EngineIdle

\* What every call of a pure function leaves alone.
Returns == pc' = "returned" /\ UNCHANGED <<call, writer, aesVars, objVars, engineVars>>

PadBytesToBlockSize ==
    /\ pc = "call"
    /\ call.fn = "pad_bytes_to_block_size"
    /\ ret' = pad_bytes_to_block_size(call.data, call.block_size, call.padding_byte)
    /\ Returns

PadHexToBlockSize ==
    /\ pc = "call"
    /\ call.fn = "pad_hex_to_block_size"
    /\ ret' = pad_hex_to_block_size(call.hex, call.block_size, call.padding_hex)
    /\ Returns

CutBytes ==
    /\ pc = "call"
    /\ call.fn = "cut_bytes"
    /\ ret' = cut_bytes(call.data, call.start_index, call.end_index)
    /\ Returns

ReplaceBytes ==
    /\ pc = "call"
    /\ call.fn = "replace_bytes"
    /\ ret' = replace_bytes(call.ori_bytes, call.start_byte_pos, call.end_byte_pos,
                            call.replace_bytes)
    /\ Returns

I16ToHex ==
    /\ pc = "call"
    /\ call.fn = "i16_to_hex"
    /\ ret' = i16_to_hex(call.number, call.expected_byte_length)
    /\ Returns

U16ToHex ==
    /\ pc = "call"
    /\ call.fn = "u16_to_hex"
    /\ ret' = u16_to_hex(call.number, call.expected_byte_length)
    /\ Returns

I32ToHex ==
    /\ pc = "call"
    /\ call.fn = "i32_to_hex"
    /\ ret' = i32_to_hex(call.number, call.expected_byte_length)
    /\ Returns

U32ToHex ==
    /\ pc = "call"
    /\ call.fn = "u32_to_hex"
    /\ ret' = u32_to_hex(call.number32, call.expected_byte_length)
    /\ Returns

NextHex ==
    \/ PadBytesToBlockSize
    \/ PadHexToBlockSize
    \/ CutBytes
    \/ ReplaceBytes
    \/ I16ToHex
    \/ U16ToHex
    \/ I32ToHex
    \/ U32ToHex

SpecHex == InitHex /\ [][NextHex]_vars

(***************************************************************************)
(* Claims about pad_bytes_to_block_size, cut_bytes and replace_bytes       *)
(***************************************************************************)
PadDefaultReturned ==
    /\ pc = "returned"
    /\ call.fn = "pad_bytes_to_block_size"
    /\ call.padding_byte = None
    /\ call.block_size \in 1..255

\* C7 as stated: for every buffer x and block size b in 1..255,
\* pad_bytes_to_block_size(x, b, None) is strictly longer than x, and an input
\* of exactly b bytes gets one full extra block of b bytes each equal to b.
C7_PadAlwaysLonger ==
    PadDefaultReturned =>
        /\ IsOk(ret)
        /\ Len(ret.val) > Len(call.data)
        /\ Len(call.data) = call.block_size =>
               ret.val = call.data \o [i \in 1..call.block_size |-> call.block_size]

\* C7 as the code has it: for every buffer x and block size b in 1..255,
\* pad_bytes_to_block_size(x, b, None) is x itself when len(x) = b, and
\* otherwise x followed by k bytes each equal to k, with 1 <= k <= b, a total
\* length that is a multiple of b, and k = b when len(x) is 0 or a multiple
\* of b other than b.
C7_PadLongerUnlessOneBlock ==
    PadDefaultReturned =>
        /\ IsOk(ret)
        /\ IF Len(call.data) = call.block_size
           THEN ret.val = call.data
           ELSE LET k == Len(ret.val) - Len(call.data)
                IN  /\ k \in 1..call.block_size
                    /\ Len(ret.val) % call.block_size = 0
                    /\ ret.val = call.data \o [i \in 1..k |-> k]
                    /\ Len(call.data) % call.block_size = 0 => k = call.block_size

\* An input of exactly one block comes back unchanged.
C7_Witness ==
    /\ PadDefaultReturned
    /\ call.block_size = 4
    /\ Len(call.data) = 4
    /\ ret = Ok(call.data)

\* The index the claim resolves a signed cut index to.
CutResolve(index, len, is_end) ==
    IF index < 0 THEN Max(len + index, 0)
    ELSE IF is_end /\ index = 0 THEN len
    ELSE Min(index, len)

\* C8: for every buffer and every pair of signed indices cut_bytes returns Ok;
\* (0,0) is the whole buffer, otherwise the result is data[s..e) for the
\* resolved and clamped s < e and the empty vector when the resolved range is
\* inverted or empty.
C8_CutBytesTotal ==
    (pc = "returned" /\ call.fn = "cut_bytes") =>
        LET s == CutResolve(call.start_index, Len(call.data), FALSE)
            e == CutResolve(call.end_index, Len(call.data), TRUE)
        IN  /\ IsOk(ret)
            /\ ret.val = IF call.start_index = 0 /\ call.end_index = 0 THEN call.data
                         ELSE IF s < e THEN SubSeq(call.data, s + 1, e)
                         ELSE <<>>

\* The resolved end of replace_bytes as the claim states it.
ReplaceEnd == IF call.end_byte_pos > 0 THEN call.end_byte_pos
              ELSE Len(call.ori_bytes) + call.end_byte_pos

\* C9: replace_bytes returns an error when ori or rep is empty, when start is
\* negative, past the end of ori or greater than the resolved end, or when end
\* is greater than len(ori); whenever it returns Ok, 0 <= start <= e <= len(ori)
\* and the result is ori[0..start) ++ rep ++ ori[e..len).
C9_ReplaceBytes ==
    (pc = "returned" /\ call.fn = "replace_bytes") =>
        LET len == Len(call.ori_bytes)
            start == call.start_byte_pos
            e == ReplaceEnd
            invalid == \/ len = 0
                       \/ Len(call.replace_bytes) = 0
                       \/ start < 0
                       \/ start > len
                       \/ start > e
                       \/ call.end_byte_pos > len
        IN  /\ ret # Panic
            /\ invalid => IsErr(ret)
            /\ IsOk(ret) =>
                   /\ 0 <= start /\ start <= e /\ e <= len
                   /\ ret.val = SubSeq(call.ori_bytes, 1, start) \o call.replace_bytes
                                \o SubSeq(call.ori_bytes, e + 1, len)

(***************************************************************************)
(* Claim about the integer-to-hex conversions                              *)
(***************************************************************************)
\* Digit k (counted from the right, from 0) of the two's-complement form of
\* the signed or unsigned integer n of native width `native` hex digits.
TwosDigit(n, k, native) ==
    IF k < native THEN (n \div Pow16(k)) % 16
    ELSE IF n < 0 THEN 15 ELSE 0

TwosComplementHex(n, native, L) ==
    [i \in 1..(2 * L) |-> UpperDigits[TwosDigit(n, (2 * L) - i, native) + 1]]

\* The same for a u32 held as two 16-bit halves.
TwosComplementHexU32(u, L) ==
    [i \in 1..(2 * L) |->
        LET k == (2 * L) - i
        IN  UpperDigits[(IF k < 4 THEN TwosDigit(u.lo, k, 4)
                         ELSE IF k < 8 THEN TwosDigit(u.hi, k - 4, 4)
                         ELSE 0) + 1]]

\* C10: i16_to_hex, i32_to_hex, u16_to_hex and u32_to_hex return exactly 2*L
\* uppercase hex digits that are n's two's-complement representation in 8*L
\* bits: the low L bytes when L is below the native width, the native form
\* when equal, and the sign extension ('F' for a negative signed n, '0'
\* otherwise) when above.
C10_IntToHex ==
    pc = "returned" =>
        LET L == call.expected_byte_length
        IN  /\ call.fn \in {"i16_to_hex", "u16_to_hex"} =>
                   ret = Ok(TwosComplementHex(call.number, 4, L))
            /\ call.fn = "i32_to_hex" =>
                   ret = Ok(TwosComplementHex(call.number, 8, L))
            /\ call.fn = "u32_to_hex" =>
                   ret = Ok(TwosComplementHexU32(call.number32, L))

\* i16_to_hex(-22, 4) is sign-extended to FFFFFFEA.
C10_Witness ==
    /\ pc = "returned"
    /\ call.fn = "i16_to_hex"
    /\ call.number = 0 - 22
    /\ call.expected_byte_length = 4
    /\ ret = Ok(<<"F", "F", "F", "F", "F", "F", "E", "A">>)

(***************************************************************************)
(* core/parts/traits.rs: EncodingParams::to_bytes and                      *)
(* EncodingDefinition::auto_process.  A definition is a record of what the *)
(* EncodingParams methods return; a String is a sequence of characters,    *)
(* codes and titles are opaque strings.                                    *)
(***************************************************************************)
\* u8::reverse_bits
RECURSIVE ReverseBitsN(_, _)
ReverseBitsN(b, n) ==
    IF n = 0 THEN 0
    ELSE ((b % 2) * (2 ^ (n - 1))) + ReverseBitsN(b \div 2, n - 1)

reverse_bits(b) == ReverseBitsN(b, 8)

swap_bytes(bytes) == Ok([i \in 1..Len(bytes) |-> reverse_bits(bytes[i])])

\* FieldType::encode is not defined in core/mod.rs: for StringOrBCD it is
\* modelled as the inverse of convert, the bytes of the hex string.
encode(ft, value) == hex_to_bytes(value)

\* Rawfield::new
RawfieldNew(raw_bytes, title, value) ==
    [bytes |-> raw_bytes, title |-> title, hex |-> HexEncodeUpper(raw_bytes),
     value |-> value]

\* Writer::write is not defined in the source: it appends the bytes of the
\* produced Rawfield to the buffer and logs the Rawfield.
WriterWrite(w, rf) ==
    [bytes |-> w.bytes \o rf.bytes, fields |-> Append(w.fields, rf)]

to_bytes_keep_high(def, input) ==
    LET ft == def.field_type
        step1 ==
            IF Len(input) = 0
            THEN IF Len(def.default_hex) # 0 THEN hex_to_bytes(def.default_hex)
                 ELSE IF Len(def.default_value) # 0 THEN encode(ft, def.default_value)
                 ELSE IF def.required THEN Err([kind |-> "CommonError", code |-> def.code])
                 ELSE Ok(<<>>)
            ELSE encode(ft, input)
    IN  IF ~IsOk(step1) THEN step1
        ELSE LET bytes == step1.val
                 expected_length == def.byte_length
                 actual_length == Len(bytes)
                 step2 ==
                     IF expected_length > 0 /\ actual_length # expected_length
                     THEN IF actual_length > expected_length
                          THEN SubSeq(bytes, 1, expected_length)
                          ELSE [i \in 1..(expected_length - actual_length) |-> 0] \o bytes
                     ELSE bytes
             IN  IF def.swap THEN swap_bytes(step2) ELSE Ok(step2)

to_bytes(def, input) ==
    LET ft == def.field_type
        step1 ==
            IF Len(input) = 0
            THEN IF Len(def.default_hex) # 0 THEN hex_to_bytes(def.default_hex)
                 ELSE IF Len(def.default_value) # 0 THEN encode(ft, def.default_value)
                 ELSE IF def.required THEN Err([kind |-> "CommonError", code |-> def.code])
                 ELSE Ok(<<>>)
            ELSE encode(ft, input)
    IN  IF ~IsOk(step1) THEN step1
        ELSE LET bytes == step1.val
                 expected_length == def.byte_length
                 actual_length == Len(bytes)
                 step2 ==
                     IF expected_length > 0 /\ actual_length # expected_length
                     THEN IF actual_length > expected_length
                          THEN SubSeq(bytes, (actual_length - expected_length) + 1,
                                      actual_length)
                          ELSE [i \in 1..(expected_length - actual_length) |-> 0] \o bytes
                     ELSE bytes
             IN  IF def.swap THEN swap_bytes(step2) ELSE Ok(step2)

\* The loop of auto_process from definition i on; the writer keeps what was
\* written before an error.
RECURSIVE AutoProcessLoop(_, _, _, _, _)
AutoProcessLoop(definitions, params, i, length, w) ==
    IF i > Len(definitions) THEN [ret |-> Ok(length % 65536), writer |-> w]
    ELSE LET definition == definitions[i]
             code == definition.code
         IN  IF code \in DOMAIN params
             THEN LET input == params[code]
                      bytes == to_bytes(definition, input)
                  IN  IF ~IsOk(bytes) THEN [ret |-> bytes, writer |-> w]
                      ELSE AutoProcessLoop(definitions, params, i + 1,
                               length + Len(bytes.val),
                               WriterWrite(w, RawfieldNew(bytes.val, definition.title,
                                                          input)))
             ELSE IF definition.required
             THEN [ret |-> Err([kind |-> "CommonError"]), writer |-> w]
             ELSE AutoProcessLoop(definitions, params, i + 1, length, w)

auto_process(definitions, params, w) == AutoProcessLoop(definitions, params, 1, 0, w)

(***************************************************************************)
(* The field plans and parameter maps auto_process is called with          *)
(***************************************************************************)
MaxDefs == 2

Codes == <<"f1", "f2", "f3", "f4">>

Titles == <<"t1", "t2", "t3", "t4">>

\* (default_hex, default_value) of a definition: none, a hex default, a
\* value default.
Defaults == {<<<<>>, <<>>>>, <<<<"0", "1">>, <<>>>>, <<<<>>, <<"0", "2">>>>}

\* The values a parameter map holds: empty, a byte, two bytes, not hex.
ParamInputs == {<<>>, <<"A", "B">>, <<"1", "2", "3", "4">>, <<"z", "z">>}

\* The definition at position i of a plan: variable length and big-endian at
\* the odd positions, i bytes and swapped at the even ones.
DefinitionAt(i, required, defaults) ==
    [code |-> Codes[i], title |-> Titles[i], field_type |-> "StringOrBCD",
     byte_length |-> IF i % 2 = 1 THEN 0 ELSE i,
     default_hex |-> defaults[1], default_value |-> defaults[2],
     swap |-> (i % 2 = 0), required |-> required]

Plans ==
    UNION {{[i \in 1..n |-> DefinitionAt(i, r[i], d[i])] :
                r \in [1..n -> BOOLEAN], d \in [1..n -> Defaults]} : n \in 1..MaxDefs}

ParamMaps(n) ==
    UNION {{[c \in {Codes[i] : i \in S} |->
                f[CHOOSE i \in S : Codes[i] = c]] : f \in [S -> ParamInputs]} :
           S \in SUBSET (1..n)}

\* The widths byte_length() declares: 0 leaves the length alone.
MaxByteLength == 3

\* The definitions to_bytes is called on directly.
ToBytesDefinitions ==
    {[code |-> "f1", title |-> "t1", field_type |-> "StringOrBCD",
      byte_length |-> n, default_hex |-> d[1], default_value |-> d[2],
      swap |-> swap, required |-> required] :
        n \in 0..MaxByteLength, d \in Defaults, swap \in BOOLEAN, required \in BOOLEAN}

InitEnc ==
    /\ pc = "call"
    /\ \/ \E definitions \in Plans :
              \E params \in ParamMaps(Len(definitions)) :
                  call = [fn |-> "auto_process", definitions |-> definitions,
                          params |-> params]
       \/ \E def \in ToBytesDefinitions, input \in ParamInputs :
              call = [fn |-> "to_bytes", definition |-> def, input |-> input]
    /\ ret = NotRun
    /\ writer = IdleWriter
    /\ cipher = [key |-> <<>>, mode |-> "NONE"]
    /\ iv = <<>>
    /\ data = <<>>
    /\ encrypted = NotRun
    /\ decrypted = NotRun
    /\ ObjectsUnbuilt
    /\ EngineIdle

AutoProcess ==
    /\ pc = "call"
    /\ call.fn = "auto_process"
    /\ LET r == auto_process(call.definitions, call.params, writer)
       IN  /\ ret' = r.ret
           /\ writer' = r.writer
    /\ pc' = "returned"
    /\ UNCHANGED <<call, aesVars, objVars, engineVars>>

ToBytes ==
    /\ pc = "call"
    /\ call.fn = "to_bytes"
    /\ ret' = to_bytes(call.definition, call.input)
    /\ pc' = "returned"
    /\ UNCHANGED <<call, writer, aesVars, objVars, engineVars>>

NextEnc == AutoProcess \/ ToBytes

SpecEnc == InitEnc /\ [][NextEnc]_vars

(***************************************************************************)
(* Claim about required and optional fields                                *)
(***************************************************************************)
\* The parameter map supplies a value for the definition.
HasValue(def) == def.code \in DOMAIN call.params /\ Len(call.params[def.code]) # 0

HasDefault(def) == Len(def.default_hex) # 0 \/ Len(def.default_value) # 0

\* Every supplied value of the plan is a hex string.
AllValuesEncodable ==
    \A c \in DOMAIN call.params : IsOk(hex_to_bytes(call.params[c]))

\* C6: encoding a field plan fails exactly when a required field has neither
\* a supplied value nor a default, a required field with a default is encoded
\* from the default, and an optional field with no value adds no field to the
\* writer and no bytes.
C6_RequiredAndOptional ==
    (pc = "returned" /\ call.fn = "auto_process" /\ AllValuesEncodable) =>
        LET defs == call.definitions
            missing == \E i \in 1..Len(defs) :
                           defs[i].required /\ ~HasValue(defs[i]) /\ ~HasDefault(defs[i])
        IN  /\ IsErr(ret) <=> missing
            /\ IsOk(ret) =>
                   /\ \A i \in 1..Len(defs) :
                          (defs[i].required /\ ~HasValue(defs[i])) =>
                              \E k \in 1..Len(writer.fields) :
                                  writer.fields[k].title = defs[i].title
                   /\ \A i \in 1..Len(defs) :
                          (~defs[i].required /\ defs[i].code \notin DOMAIN call.params) =>
                              \A k \in 1..Len(writer.fields) :
                                  writer.fields[k].title # defs[i].title
                   /\ ret.val = Len(writer.bytes)

(***************************************************************************)
(* core/mod.rs and core/macro_plugin.rs: FieldType::convert.  A FieldType  *)
(* is a record of its variant and its scale; integers of up to 64 bits are *)
(* rendered from their bytes, as sequences of decimal digits.              *)
(***************************************************************************)
\* The little-endian decimal digits of d * m + carry.
RECURSIVE MulAddDigits(_, _, _)
MulAddDigits(d, m, carry) ==
    IF Len(d) = 0
    THEN IF carry = 0 THEN <<>>
         ELSE <<carry % 10>> \o MulAddDigits(<<>>, m, carry \div 10)
    ELSE LET t == (d[1] * m) + carry
         IN  <<t % 10>> \o MulAddDigits(Tail(d), m, t \div 10)

\* uN::from_be_bytes of the first n bytes, as little-endian decimal digits.
RECURSIVE DigitsOfBytes(_, _)
DigitsOfBytes(bytes, n) ==
    IF n = 0 THEN <<>>
    ELSE MulAddDigits(DigitsOfBytes(bytes, n - 1), 256, bytes[n])

\* to_string of a non-negative integer given by its little-endian digits.
DecimalString(d) ==
    IF Len(d) = 0 THEN <<"0">>
    ELSE [i \in 1..Len(d) |-> UpperDigits[d[(Len(d) + 1) - i] + 1]]

\* <$type>::from_be_bytes(bytes).to_string(): a set top bit of a signed type
\* is a negative value, whose magnitude is the inverted bytes plus one.
from_be_bytes_to_string(signed, bytes) ==
    IF signed /\ bytes[1] >= 128
    THEN <<"-">> \o DecimalString(MulAddDigits(
             DigitsOfBytes([i \in 1..Len(bytes) |-> 255 - bytes[i]], Len(bytes)), 1, 1))
    ELSE DecimalString(DigitsOfBytes(bytes, Len(bytes)))

\* math_util::multiply is not defined in the source: the product of the value
\* and a scale of ten, as a decimal string.
math_util_multiply(value, scale) ==
    IF value = <<"0">> THEN Ok(value) ELSE Ok(value \o <<"0">>)

handle_int_zero_scale_unscaled(signed, len, bytes, scale) ==
    IF Len(bytes) # len THEN Err([kind |-> "ValidationFailed"])
    ELSE IF scale # 1 /\ scale # 0
    THEN math_util_multiply(from_be_bytes_to_string(signed, bytes), scale)
    ELSE Ok(from_be_bytes_to_string(signed, bytes))

handle_int(signed, len, bytes, scale) ==
    IF Len(bytes) # len THEN Err([kind |-> "ValidationFailed"])
    ELSE IF scale # 1 /\ scale # 0
    THEN math_util_multiply(from_be_bytes_to_string(signed, bytes), scale)
    ELSE IF scale = 0 THEN Err([kind |-> "ValidationFailed"])
    ELSE Ok(from_be_bytes_to_string(signed, bytes))

\* The names of the ASCII control characters 0..31 and of 127.
ControlChars ==
    <<"NUL", "SOH", "STX", "ETX", "EOT", "ENQ", "ACK", "BEL", "BS", "HT", "LF",
      "VT", "FF", "CR", "SO", "SI", "DLE", "DC1", "DC2", "DC3", "DC4", "NAK",
      "SYN", "ETB", "CAN", "EM", "SUB", "ESC", "FS", "GS", "RS", "US">>

\* The printable ASCII characters 32..126, three of them by name.
PrintableChars ==
    <<" ", "!", "QUOTE", "#", "$", "%", "&", "'", "(", ")", "*", "+", ",", "-", ".", "/",
      "0", "1", "2", "3", "4", "5", "6", "7", "8", "9", ":", ";", "<", "=", ">", "?",
      "@", "A", "B", "C", "D", "E", "F", "G", "H", "I", "J", "K", "L", "M", "N", "O",
      "P", "Q", "R", "S", "T", "U", "V", "W", "X", "Y", "Z", "[", "BACKSLASH", "]", "^", "_",
      "GRAVE", "a", "b", "c", "d", "e", "f", "g", "h", "i", "j", "k", "l", "m", "n", "o",
      "p", "q", "r", "s", "t", "u", "v", "w", "x", "y", "z", "{", "|", "}", "~">>

\* String::from_utf8 of one ASCII byte.
AsciiChar(b) ==
    IF b < 32 THEN ControlChars[b + 1]
    ELSE IF b = 127 THEN "DEL"
    ELSE PrintableChars[b - 31]

IntWidth(kind) ==
    CASE kind \in {"UnsignedU8", "SignedI8"} -> 1
      [] kind \in {"UnsignedU16", "SignedI16"} -> 2
      [] kind \in {"UnsignedU32", "SignedI32"} -> 4
      [] kind \in {"UnsignedU64", "SignedI64"} -> 8

UnsignedKinds == {"UnsignedU8", "UnsignedU16", "UnsignedU32", "UnsignedU64"}

SignedKinds == {"SignedI8", "SignedI16", "SignedI32", "SignedI64"}

IntKinds == UnsignedKinds \cup SignedKinds

FieldType == IntKinds \cup {"StringOrBCD", "Float", "Double", "Ascii"}

\* FieldType::convert.  The decimal rendering of a float is not computed: the
\* value of Float and Double is the bit pattern, tagged with its type.
convert(ft, bytes) ==
    CASE ft.kind = "StringOrBCD" -> bytes_to_hex(bytes)
      [] ft.kind \in IntKinds ->
             handle_int(ft.kind \in SignedKinds, IntWidth(ft.kind), bytes, ft.scale)
      [] ft.kind = "Float" ->
             IF Len(bytes) # 4 THEN Err([kind |-> "ValidationFailed"])
             ELSE Ok(<<"f32">> \o HexEncodeUpper(bytes))
      [] ft.kind = "Double" ->
             IF Len(bytes) # 8 THEN Err([kind |-> "ValidationFailed"])
             ELSE Ok(<<"f64">> \o HexEncodeUpper(bytes))
      [] ft.kind = "Ascii" ->
             IF \E i \in 1..Len(bytes) : bytes[i] > 127
             THEN Err([kind |-> "CommonError"])
             ELSE Ok([i \in 1..Len(bytes) |-> AsciiChar(bytes[i])])

(***************************************************************************)
(* core/parts/rawfield.rs and core/mod.rs: the Rawfield constructors and   *)
(* the three field translators.                                            *)
(***************************************************************************)
\* Rawfield::new_with_hex: the unwrap panics when hex_to_bytes fails.
RawfieldNewWithHex(hex, title, value) ==
    IF ~IsOk(hex_to_bytes(hex)) THEN Panic
    ELSE [bytes |-> hex_to_bytes(hex).val, title |-> title, hex |-> hex, value |-> value]

\* The bytes a translator works on: reversed when swap is set and there is
\* more than one byte.
InputBytes(swap, bytes) == IF swap /\ Len(bytes) > 1 THEN Reverse(bytes) ELSE bytes

\* FieldConvertDecoder::translate; symbol is None or Some(tag).
convert_translate(decoder, bytes) ==
    LET input_bytes == InputBytes(decoder.swap, bytes)
        value == convert(decoder.filed_type, input_bytes)
    IN  IF ~IsOk(value) THEN value
        ELSE Ok(RawfieldNew(bytes, decoder.title,
                            IF decoder.symbol # None
                            THEN value.val \o <<" ">> \o decoder.symbol[1]
                            ELSE value.val))

compare_translate_no_swap(decoder, bytes) ==
    IF bytes # decoder.compare_target THEN Err([kind |-> "CommonError"])
    ELSE Ok(RawfieldNew(bytes, decoder.title, bytes_to_hex(bytes).val))

\* FieldCompareDecoder::translate
compare_translate(decoder, bytes) ==
    LET input_bytes == InputBytes(decoder.swap, bytes)
    IN  IF input_bytes # decoder.compare_target THEN Err([kind |-> "CommonError"])
        ELSE Ok(RawfieldNew(bytes, decoder.title, bytes_to_hex(input_bytes).val))

\* enum_values.iter().find(..) from pair i on: the index of the first pair
\* whose hex is the given one, 0 when there is none.
RECURSIVE FindEnum(_, _, _)
FindEnum(enum_values, hex, i) ==
    IF i > Len(enum_values) THEN 0
    ELSE IF enum_values[i][1] = hex THEN i
    ELSE FindEnum(enum_values, hex, i + 1)

enum_translate_no_swap(decoder, bytes) ==
    LET hex == bytes_to_hex(bytes).val
        found == FindEnum(decoder.enum_values, hex, 1)
    IN  Ok(RawfieldNew(bytes, decoder.title,
                       IF found # 0 THEN decoder.enum_values[found][2] ELSE hex))

\* FieldEnumDecoder::translate
enum_translate(decoder, bytes) ==
    LET input_bytes == InputBytes(decoder.swap, bytes)
        hex == bytes_to_hex(input_bytes).val
        found == FindEnum(decoder.enum_values, hex, 1)
    IN  Ok(RawfieldNew(bytes, decoder.title,
                       IF found # 0 THEN decoder.enum_values[found][2] ELSE hex))

(***************************************************************************)
(* The inputs of the field type system and of the translators              *)
(***************************************************************************)
MaxConvertLen == 9

MaxEnum == 2

\* The bytes that decide a value: zero, one, the two around the sign bit and
\* the largest.
EdgeBytes == {0, 1, 127, 128, 255}

\* The byte strings of n bytes with a first, a last and one repeated middle byte.
ConvertBytes(n) ==
    {[i \in 1..n |-> IF i = 1 THEN a ELSE IF i = n THEN c ELSE b] :
        a \in EdgeBytes, b \in EdgeBytes, c \in EdgeBytes}

Scales == {0, 1, 10}

FieldTypes ==
    {[kind |-> k, scale |-> s] : k \in IntKinds, s \in Scales}
    \cup {[kind |-> k, scale |-> 1] : k \in FieldType \ IntKinds}

DecoderBytes == {<<>>, <<1>>, <<1, 2>>, <<2, 1>>, <<171, 205>>, <<1, 2, 3>>}

EnumHexes ==
    {<<"0", "1">>, <<"0", "1", "0", "2">>, <<"0", "2", "0", "1">>,
     <<"A", "B", "C", "D">>, <<"c", "d", "a", "b">>}

EnumLabels == <<<<"o", "n">>, <<"o", "f", "f">>, <<"i", "d", "l", "e">>>>

EnumLists ==
    UNION {{[i \in 1..n |-> <<h[i], EnumLabels[i]>>] : h \in [1..n -> EnumHexes]} :
           n \in 0..MaxEnum}

RawfieldHexes ==
    {<<>>, <<"A", "B">>, <<"a", "b">>, <<"0", "1", "0", "2">>, <<"1", "2", "3">>,
     <<"z", "z">>, <<"0", "x", "0", "1">>, <<"a", "B", "0", "1">>}

FieldCalls ==
    {[fn |-> "convert", ft |-> ft, bytes |-> b] :
        ft \in FieldTypes, b \in UNION {ConvertBytes(n) : n \in 0..MaxConvertLen}}
    \cup
    {[fn |-> "convert_translate",
      decoder |-> [title |-> "t1", filed_type |-> ft, swap |-> s, symbol |-> sym],
      bytes |-> b] :
        ft \in {[kind |-> k, scale |-> 1] : k \in {"UnsignedU16", "SignedI8", "StringOrBCD"}},
        s \in BOOLEAN, sym \in {None, <<<<"%">>>>, <<<<"m", "V">>>>}, b \in DecoderBytes}
    \cup
    {[fn |-> "compare_translate",
      decoder |-> [title |-> "t1", swap |-> s, compare_target |-> t], bytes |-> b] :
        s \in BOOLEAN, t \in DecoderBytes, b \in DecoderBytes}
    \cup
    {[fn |-> "enum_translate",
      decoder |-> [title |-> "t1", swap |-> s, enum_values |-> e], bytes |-> b] :
        s \in BOOLEAN, e \in EnumLists, b \in DecoderBytes \cup {<<205, 171>>}}
    \cup
    {[fn |-> "Rawfield::new", raw_bytes |-> b, title |-> "t1", value |-> <<"v">>] :
        b \in DecoderBytes \cup ConvertBytes(3)}
    \cup
    {[fn |-> "Rawfield::new_with_hex", hex |-> h, title |-> "t1", value |-> <<"v">>] :
        h \in RawfieldHexes}

InitField ==
    /\ pc = "call"
    /\ call \in FieldCalls
    /\ ret = NotRun
    /\ writer = IdleWriter
    /\ cipher = [key |-> <<>>, mode |-> "NONE"]
    /\ iv = <<>>
    /\ data = <<>>
    /\ encrypted = NotRun
    /\ decrypted = NotRun
    /\ ObjectsUnbuilt
    /\ EngineIdle

Convert ==
    /\ pc = "call"
    /\ call.fn = "convert"
    /\ ret' = convert(call.ft, call.bytes)
    /\ Returns

ConvertTranslate ==
    /\ pc = "call"
    /\ call.fn = "convert_translate"
    /\ ret' = convert_translate(call.decoder, call.bytes)
    /\ Returns

CompareTranslate ==
    /\ pc = "call"
    /\ call.fn = "compare_translate"
    /\ ret' = compare_translate(call.decoder, call.bytes)
    /\ Returns

EnumTranslate ==
    /\ pc = "call"
    /\ call.fn = "enum_translate"
    /\ ret' = enum_translate(call.decoder, call.bytes)
    /\ Returns

RawfieldNewCall ==
    /\ pc = "call"
    /\ call.fn = "Rawfield::new"
    /\ ret' = RawfieldNew(call.raw_bytes, call.title, call.value)
    /\ Returns

RawfieldNewWithHexCall ==
    /\ pc = "call"
    /\ call.fn = "Rawfield::new_with_hex"
    /\ ret' = RawfieldNewWithHex(call.hex, call.title, call.value)
    /\ Returns

NextField ==
    \/ Convert
    \/ ConvertTranslate
    \/ CompareTranslate
    \/ EnumTranslate
    \/ RawfieldNewCall
    \/ RawfieldNewWithHexCall

SpecField == InitField /\ [][NextField]_vars

(***************************************************************************)
(* Claims about the field type system and the translators                  *)
(***************************************************************************)
\* A decimal numeral without a sign and without a leading zero.
IsCanonicalDecimal(s) ==
    /\ Len(s) > 0
    /\ \A i \in 1..Len(s) : IsAsciiDigit(s[i])
    /\ Len(s) = 1 \/ s[1] # "0"

\* Long division of a numeral by 256: the remainder after its first n digits
\* and the digits of the quotient.
RECURSIVE DivRem(_, _)
DivRem(s, n) ==
    IF n = 0 THEN 0 ELSE ((DivRem(s, n - 1) * 10) + HexVal(s[n])) % 256

RECURSIVE DivQuotFrom(_, _, _)
DivQuotFrom(s, i, rem) ==
    IF i > Len(s) THEN <<>>
    ELSE LET t == (rem * 10) + HexVal(s[i])
         IN  <<UpperDigits[(t \div 256) + 1]>> \o DivQuotFrom(s, i + 1, t % 256)

DivQuot(s) == DivQuotFrom(s, 1, 0)

\* The w low bytes of the number a numeral denotes, big-endian, and what is
\* left of the number above them.
RECURSIVE BytesOfDecimal(_, _)
BytesOfDecimal(s, w) ==
    IF w = 0 THEN <<>>
    ELSE BytesOfDecimal(DivQuot(s), w - 1) \o <<DivRem(s, Len(s))>>

RECURSIVE AboveBytes(_, _)
AboveBytes(s, w) == IF w = 0 THEN s ELSE AboveBytes(DivQuot(s), w - 1)

FitsBytes(s, w) == \A i \in 1..Len(s) : AboveBytes(s, w)[i] = "0"

\* The carry into byte i of the sum of two big-endian numbers of equal length.
RECURSIVE CarryInto(_, _, _)
CarryInto(a, b, i) ==
    IF i = Len(a) THEN 0
    ELSE (a[i + 1] + b[i + 1] + CarryInto(a, b, i + 1)) \div 256

\* a + b = 2^(8 * Len(a))
SumsToZero(a, b) ==
    /\ \A i \in 1..Len(a) : (a[i] + b[i] + CarryInto(a, b, i)) % 256 = 0
    /\ (a[1] + b[1] + CarryInto(a, b, 1)) \div 256 = 1

\* s is the decimal string of the big-endian value of bytes, read as two's
\* complement when signed.
IsDecimalOf(s, bytes, signed) ==
    LET w == Len(bytes)
    IN  IF signed /\ bytes[1] >= 128
        THEN /\ Len(s) > 1
             /\ s[1] = "-"
             /\ IsCanonicalDecimal(Tail(s))
             /\ FitsBytes(Tail(s), w)
             /\ SumsToZero(bytes, BytesOfDecimal(Tail(s), w))
        ELSE /\ IsCanonicalDecimal(s)
             /\ FitsBytes(s, w)
             /\ BytesOfDecimal(s, w) = bytes

\* C11: the integer decode of FieldType returns a ValidationFailed error
\* whenever the byte count differs from the variant's width or the scale is 0;
\* with scale 1 and the exact width it returns the decimal string of the
\* big-endian value, two's complement for the signed variants and unsigned for
\* the unsigned ones.
C11_IntegerDecode ==
    (pc = "returned" /\ call.fn = "convert" /\ call.ft.kind \in IntKinds) =>
        LET w == IntWidth(call.ft.kind)
        IN  /\ (Len(call.bytes) # w \/ call.ft.scale = 0) =>
                   ret = Err([kind |-> "ValidationFailed"])
            /\ (Len(call.bytes) = w /\ call.ft.scale = 1) =>
                   /\ IsOk(ret)
                   /\ IsDecimalOf(ret.val, call.bytes, call.ft.kind \in SignedKinds)

\* The eight bytes of i64::MIN decode to its decimal string.
C11_Witness ==
    /\ pc = "returned"
    /\ call.fn = "convert"
    /\ call.ft = [kind |-> "SignedI64", scale |-> 1]
    /\ call.bytes = <<128, 0, 0, 0, 0, 0, 0, 0>>
    /\ ret = Ok(<<"-", "9", "2", "2", "3", "3", "7", "2", "0", "3", "6", "8", "5", "4",
                  "7", "7", "5", "8", "0", "8">>)

\* The bytes a translator compares or looks up, as the claims state them.
ComparedBytes ==
    IF call.decoder.swap /\ Len(call.bytes) > 1
    THEN [i \in 1..Len(call.bytes) |-> call.bytes[(Len(call.bytes) + 1) - i]]
    ELSE call.bytes

C14_RawfieldHexCanonical ==
    (/\ pc = "returned"
     /\ call.fn \in {"Rawfield::new", "Rawfield::new_with_hex"}
     /\ ret # Panic) =>
        ret.hex = HexEncodeUpper(ret.bytes)

(***************************************************************************)
(* core/parts: RawCapsule, RawChamber and TransportPair.  An Option is     *)
(* None or Some(v); a command is a record of what its Cmd methods return;  *)
(* a ReportField is an opaque value.                                       *)
(***************************************************************************)
new_upstream(bytes) ==
    [bytes |-> bytes, hex |-> HexEncodeUpper(bytes), field_details |-> <<>>,
     cmd |-> None, device_no |-> None, device_id |-> None, temp_bytes |-> <<>>,
     direction |-> "Upstream", success |-> TRUE]

new_downstream(cmd, device_no, device_id) ==
    [bytes |-> <<>>, hex |-> <<>>, field_details |-> <<>>,
     cmd |-> Some(cmd), device_no |-> Some(device_no), device_id |-> Some(device_id),
     temp_bytes |-> <<>>, direction |-> "Downstream", success |-> TRUE]

get_cmd_clone(c) == c.cmd

new_downstream_from_upstream(up_stream_capsule) ==
    [bytes |-> <<>>, hex |-> <<>>, field_details |-> <<>>,
     cmd |-> get_cmd_clone(up_stream_capsule),
     device_no |-> up_stream_capsule.device_no,
     device_id |-> up_stream_capsule.device_id,
     temp_bytes |-> <<>>, direction |-> "Downstream", success |-> TRUE]

fail_forgotten(c) == c

fail(c) == [c EXCEPT !.success = FALSE]

set_bytes_keep_hex(c, bytes) == [c EXCEPT !.bytes = bytes]

set_bytes_and_generate_hex(c, bytes) ==
    [c EXCEPT !.bytes = bytes, !.hex = bytes_to_hex(bytes).val]

set_device_id(c, device_id) == [c EXCEPT !.device_id = Some(device_id)]

set_device_no(c, device_no) == [c EXCEPT !.device_no = Some(device_no)]

set_cmd(c, cmd) == [c EXCEPT !.cmd = Some(cmd)]

set_temp_bytes(c, bytes) == [c EXCEPT !.temp_bytes = bytes]

set_fields_marks_success(c, fields) ==
    [c EXCEPT !.field_details = fields, !.success = TRUE]

set_fields(c, fields) == [c EXCEPT !.field_details = fields]

append_fields(c, fields) == [c EXCEPT !.field_details = c.field_details \o fields]

prepend_fields(c, fields) == [c EXCEPT !.field_details = fields \o c.field_details]

\* The code of the capsule's command, when it has one.
CmdCode(c) == IF c.cmd # None THEN Some(c.cmd[1].code) ELSE None

RawChamberNewInFirst(in_capsule, out_capsule) ==
    [upstream |-> Some(in_capsule), downstream |-> Some(out_capsule),
     cmd_code |-> IF CmdCode(in_capsule) # None THEN CmdCode(in_capsule)[1]
                  ELSE IF CmdCode(out_capsule) # None THEN CmdCode(out_capsule)[1]
                  ELSE "",
     success |-> in_capsule.success /\ out_capsule.success]

\* RawChamber::new
RawChamberNew(in_capsule, out_capsule) ==
    [upstream |-> Some(in_capsule), downstream |-> Some(out_capsule),
     cmd_code |-> IF CmdCode(out_capsule) # None THEN CmdCode(out_capsule)[1]
                  ELSE IF CmdCode(in_capsule) # None THEN CmdCode(in_capsule)[1]
                  ELSE "",
     success |-> in_capsule.success /\ out_capsule.success]

\* TransportPair::new
TransportPairNew(hex, bytes) == [hex |-> hex, bytes |-> bytes]

set_hex(p, hex) == [p EXCEPT !.hex = hex]

set_bytes(p, bytes) == [p EXCEPT !.bytes = bytes]

(***************************************************************************)
(* A caller that builds a capsule and a pair, calls their methods in any   *)
(* order and builds a chamber last                                         *)
(***************************************************************************)
MaxFields == 2

CapsuleBytes == {<<>>, <<1>>, <<171, 205>>}

Cmds == {[code |-> "c1"], [code |-> "c2"]}

ReportFields == {"f1", "f2"}

\* The field lists a caller passes: one field or two.
FieldLists == {<<f>> : f \in ReportFields} \cup {<<"f1", "f2">>}

\* The capsules a chamber pairs the capsule with.
PeerCapsules ==
    {new_upstream(<<1>>), fail(new_upstream(<<1>>)),
     new_downstream([code |-> "c2"], <<"n", "2">>, <<"i", "2">>),
     fail(set_cmd(new_upstream(<<1>>), [code |-> "c2"]))}

PairHexes == {<<>>, <<"0", "1">>, <<"a", "b">>, <<"A", "B">>}

PairBytes == {<<>>, <<1>>, <<171>>}

InitObj ==
    /\ pc = "objects"
    /\ ObjectsUnbuilt
    /\ EngineIdle
    /\ call = IdleCall
    /\ ret = NotRun
    /\ writer = IdleWriter
    /\ cipher = [key |-> <<>>, mode |-> "NONE"]
    /\ iv = <<>>
    /\ data = <<>>
    /\ encrypted = NotRun
    /\ decrypted = NotRun

\* What a method of the capsule leaves alone.
CapsuleOnly == UNCHANGED <<pc, chamber, pair, callVars, aesVars, engineVars>>

NewUpstream ==
    /\ pc = "objects"
    /\ capsule = Unbuilt
    /\ \E bytes \in CapsuleBytes : capsule' = new_upstream(bytes)
    /\ CapsuleOnly

NewDownstream ==
    /\ pc = "objects"
    /\ capsule = Unbuilt
    /\ \E cmd \in Cmds : capsule' = new_downstream(cmd, <<"n", "1">>, <<"i", "1">>)
    /\ CapsuleOnly

NewDownstreamFromUpstream ==
    /\ pc = "objects"
    /\ capsule # Unbuilt
    /\ capsule.direction = "Upstream"
    /\ capsule' = new_downstream_from_upstream(capsule)
    /\ CapsuleOnly

Fail ==
    /\ pc = "objects"
    /\ capsule # Unbuilt
    /\ capsule' = fail(capsule)
    /\ CapsuleOnly

SetBytesAndGenerateHex ==
    /\ pc = "objects"
    /\ capsule # Unbuilt
    /\ \E bytes \in CapsuleBytes : capsule' = set_bytes_and_generate_hex(capsule, bytes)
    /\ CapsuleOnly

SetDeviceId ==
    /\ pc = "objects"
    /\ capsule # Unbuilt
    /\ capsule' = set_device_id(capsule, <<"i", "1">>)
    /\ CapsuleOnly

SetDeviceNo ==
    /\ pc = "objects"
    /\ capsule # Unbuilt
    /\ capsule' = set_device_no(capsule, <<"n", "1">>)
    /\ CapsuleOnly

SetCmd ==
    /\ pc = "objects"
    /\ capsule # Unbuilt
    /\ \E cmd \in Cmds : capsule' = set_cmd(capsule, cmd)
    /\ CapsuleOnly

SetTempBytes ==
    /\ pc = "objects"
    /\ capsule # Unbuilt
    /\ \E bytes \in {<<>>, <<9>>} : capsule' = set_temp_bytes(capsule, bytes)
    /\ CapsuleOnly

SetFields ==
    /\ pc = "objects"
    /\ capsule # Unbuilt
    /\ \E fields \in FieldLists \cup {<<>>} : capsule' = set_fields(capsule, fields)
    /\ CapsuleOnly

AppendFields ==
    /\ pc = "objects"
    /\ capsule # Unbuilt
    /\ \E fields \in FieldLists :
           /\ Len(capsule.field_details) + Len(fields) <= MaxFields
           /\ capsule' = append_fields(capsule, fields)
    /\ CapsuleOnly

PrependFields ==
    /\ pc = "objects"
    /\ capsule # Unbuilt
    /\ \E fields \in FieldLists :
           /\ Len(capsule.field_details) + Len(fields) <= MaxFields
           /\ capsule' = prepend_fields(capsule, fields)
    /\ CapsuleOnly

\* RawChamber::new with the capsule as the upstream or as the downstream side.
ChamberNew ==
    /\ pc = "objects"
    /\ capsule # Unbuilt
    /\ \E peer \in PeerCapsules :
           \/ chamber' = RawChamberNew(capsule, peer)
           \/ chamber' = RawChamberNew(peer, capsule)
    /\ pc' = "chamber_built"
    /\ UNCHANGED <<capsule, pair, callVars, aesVars, engineVars>>

PairOnly == UNCHANGED <<pc, capsule, chamber, callVars, aesVars, engineVars>>

PairNew ==
    /\ pc = "objects"
    /\ pair = Unbuilt
    /\ \E hex \in PairHexes, bytes \in PairBytes : pair' = TransportPairNew(hex, bytes)
    /\ PairOnly

SetHex ==
    /\ pc = "objects"
    /\ pair # Unbuilt
    /\ \E hex \in PairHexes : pair' = set_hex(pair, hex)
    /\ PairOnly

SetBytes ==
    /\ pc = "objects"
    /\ pair # Unbuilt
    /\ \E bytes \in PairBytes : pair' = set_bytes(pair, bytes)
    /\ PairOnly

NextObj ==
    \/ NewUpstream
    \/ NewDownstream
    \/ NewDownstreamFromUpstream
    \/ Fail
    \/ SetBytesAndGenerateHex
    \/ SetDeviceId
    \/ SetDeviceNo
    \/ SetCmd
    \/ SetTempBytes
    \/ SetFields
    \/ AppendFields
    \/ PrependFields
    \/ ChamberNew
    \/ PairNew
    \/ SetHex
    \/ SetBytes

SpecObj == InitObj /\ [][NextObj]_vars

C16_PairInSync ==
    pair # Unbuilt => hex_to_bytes(pair.hex) = Ok(pair.bytes)

\* C17: RawChamber::new(up, down) has success exactly when both capsules have
\* it, and its cmd_code is the code of down's command when down has one,
\* otherwise the code of up's command, otherwise the empty string.
C17_ChamberNew ==
    chamber # Unbuilt =>
        LET up == chamber.upstream[1]
            down == chamber.downstream[1]
        IN  /\ chamber.success <=> (up.success /\ down.success)
            /\ down.cmd # None => chamber.cmd_code = down.cmd[1].code
            /\ (down.cmd = None /\ up.cmd # None) => chamber.cmd_code = up.cmd[1].code
            /\ (down.cmd = None /\ up.cmd = None) => chamber.cmd_code = ""

\* Both sides carry a command and only the upstream side succeeded.
C17_Witness ==
    /\ chamber # Unbuilt
    /\ chamber.upstream[1].cmd = Some([code |-> "c1"])
    /\ chamber.downstream[1].cmd = Some([code |-> "c2"])
    /\ chamber.upstream[1].success
    /\ ~chamber.downstream[1].success
    /\ chamber.cmd_code = "c2"
    /\ ~chamber.success

(***************************************************************************)
(* Claims about padding validation, the iv length and CTS on aligned input *)
(***************************************************************************)
\* The ciphertext the caller handed to decrypt.
Ciphertext == IF pc = "aes_decrypted" THEN encrypted.val ELSE data

\* The block sequence ECB or CBC decryption produces before unpadding.
RawDecrypted ==
    IF cipher.mode = "ECB" THEN EcbLoop(cipher.key, Ciphertext, FALSE, 0)
    ELSE CbcDecLoop(cipher.key, Ciphertext, iv, 0)

\* d ends with a valid PKCS#7 pad.
EndsWithPad(d) ==
    /\ Len(d) > 0
    /\ d[Len(d)] \in 1..16
    /\ d[Len(d)] <= Len(d)
    /\ \A i \in 1..d[Len(d)] : d[(Len(d) + 1) - i] = d[Len(d)]

\* C18: ECB and CBC decrypt return Ok(p) only when the raw decrypted block
\* sequence ends with a valid PKCS#7 pad, p being that sequence without the
\* pad; for every other ciphertext, including one whose length is not a
\* positive multiple of 16, decrypt returns an error.
C18_DecryptValidatesPadding ==
    (/\ pc \in {"aes_decrypted", "aes_decrypted_input"}
     /\ cipher.mode = "ECB" \/ (cipher.mode = "CBC" /\ Len(iv) = 16)) =>
        IF /\ Len(Ciphertext) > 0
           /\ Len(Ciphertext) % 16 = 0
           /\ EndsWithPad(RawDecrypted)
        THEN decrypted = Ok(SubSeq(RawDecrypted, 1,
                                   Len(RawDecrypted) - RawDecrypted[Len(RawDecrypted)]))
        ELSE IsErr(decrypted)

IvModes == {"CBC", "CFB", "OFB", "CTR", "CTS"}

AsCbc == [cipher EXCEPT !.mode = "CBC"]

\* C20: in CTS mode encrypt and decrypt of an input shorter than 16 bytes
\* return an error, and for an input whose length is a positive multiple of 16
\* they return exactly what CBC mode returns for the same key, iv and input.
C20_CtsAligned ==
    cipher.mode = "CTS" =>
        /\ Len(data) < 16 =>
               /\ pc = "aes_encrypted" => IsErr(encrypted)
               /\ pc = "aes_decrypted_input" => IsErr(decrypted)
        /\ (Len(data) >= 16 /\ Len(data) % 16 = 0) =>
               /\ pc = "aes_encrypted" => encrypted = encrypt(AsCbc, data, iv)
               /\ pc = "aes_decrypted_input" => decrypted = decrypt(AsCbc, data, iv)
               /\ (pc = "aes_decrypted" /\ Len(iv) = 16) =>
                      decrypted = decrypt(AsCbc, encrypted.val, iv)

\* Two aligned blocks come out of CTS as the three blocks CBC makes of them.
C20_Witness ==
    /\ pc = "aes_encrypted"
    /\ cipher.mode = "CTS"
    /\ Len(iv) = 16
    /\ Len(data) = 32
    /\ IsOk(encrypted)
    /\ Len(encrypted.val) = 48
    /\ encrypted = encrypt_cbc(cipher.key, data, iv)

\* C21: for every plaintext of length n >= 16 that is not a multiple of 16,
\* CTS encrypt returns a ciphertext of exactly n bytes, whatever the number of
\* full blocks before the final partial block.
C21_CtsKeepsLength ==
    (/\ pc = "aes_encrypted"
     /\ cipher.mode = "CTS"
     /\ Len(iv) = 16
     /\ Len(data) >= 16
     /\ Len(data) % 16 # 0) =>
        /\ IsOk(encrypted)
        /\ Len(encrypted.val) = Len(data)

(***************************************************************************)
(* The frame Reader (core/reader, declared in core/mod.rs).  Its state     *)
(* machine is ExpectHead -> ExtractFields (once per PlaceHolder of the     *)
(* plan) -> ExpectChecksum -> ExpectTail -> Done, with the terminal state  *)
(* Failed.  It works on an upstream RawCapsule with the translators, the   *)
(* CRC comparison and the capsule methods modelled above.                  *)
(***************************************************************************)
PlaceHolderNew(tag, pos, start_index, end_index) ==
    [tag |-> tag, pos |-> pos, start_index |-> start_index, end_index |-> end_index]

\* &bytes[start..end] with 0-based offsets, end exclusive.
Slice(bytes, start, end) == SubSeq(bytes, start + 1, end)

\* One bit of CRC-16/Modbus: shift right, xor 0xA001 when a 1 fell out.
RECURSIVE Crc16Shift(_, _)
Crc16Shift(crc, n) ==
    IF n = 0 THEN crc
    ELSE Crc16Shift(IF crc % 2 = 1 THEN BitXor(crc \div 2, 40961) ELSE crc \div 2,
                    n - 1)

\* CrcType::Crc16Modbus.calculate: initial value 0xFFFF, reflected.
RECURSIVE Crc16From(_, _, _)
Crc16From(bytes, i, crc) ==
    IF i > Len(bytes) THEN crc
    ELSE Crc16From(bytes, i + 1, Crc16Shift(BitXor(crc, bytes[i]), 8))

crc16_modbus(bytes) == Crc16From(bytes, 1, 65535)

\* A Reader over the capsule, about to check the head.
ReaderNew(config, plan) ==
    [state |-> "ExpectHead", config |-> config, plan |-> plan, next |-> 1]

\* The bytes at the configured head index.
HeadBytes(config, frame) == Slice(frame, 0, Len(config.head_tag))

\* The final bytes of the frame.
TailBytes(config, frame) ==
    Slice(frame, Len(frame) - Len(config.tail_tag), Len(frame))

\* The checksum embedded at crc_index, and the checksum of the bytes before it.
EmbeddedCrc(config, frame) == Slice(frame, config.crc_index[1], config.crc_index[2])

ProtectedCrc(config, frame) == crc16_modbus(Slice(frame, 0, config.crc_index[1]))

expect_head(config, frame) ==
    IF HeadBytes(config, frame) = config.head_tag THEN Ok(<<>>)
    ELSE Err([kind |-> "InvalidHead", expected |-> config.head_tag,
              actual |-> HeadBytes(config, frame)])

\* The range of the PlaceHolder, handed to the field's translator.
extract_field(entry, frame) ==
    convert_translate(entry.decoder,
                      Slice(frame, entry.holder.start_index, entry.holder.end_index))

expect_checksum(config, frame) ==
    compare_crc(bytes_to_hex(EmbeddedCrc(config, frame)).val, ProtectedCrc(config, frame))

expect_tail(config, frame) ==
    IF TailBytes(config, frame) = config.tail_tag THEN Ok(<<>>)
    ELSE Err([kind |-> "InvalidTail", expected |-> config.tail_tag,
              actual |-> TailBytes(config, frame)])

(***************************************************************************)
(* Frames of six bytes: head, two payload bytes, the checksum, tail.       *)
(***************************************************************************)
MaxPlan == 2

Config == [head_tag |-> <<104>>, tail_tag |-> <<22>>, crc_index |-> <<3, 5>>]

FramePayloads == {<<b1, b2>> : b1 \in {0, 1}, b2 \in {0, 255}}

\* The checksum in either byte order, and a corrupted one.
FrameCrcs(protected) ==
    {collect_hex_and_bytes(crc16_modbus(protected), swap).bytes : swap \in BOOLEAN}
        \cup {<<0, 0>>}

Frames ==
    {<<head>> \o payload \o crc \o <<tail>> :
        head \in {104, 0}, payload \in FramePayloads,
        crc \in UNION {FrameCrcs(<<h>> \o p) : h \in {104, 0}, p \in FramePayloads},
        tail \in {22, 0}}

Decoder(title, kind, swap) ==
    [title |-> title, filed_type |-> [kind |-> kind, scale |-> 1], swap |-> swap,
     symbol |-> None]

\* A PlaceHolder with its translator; the last one hands one byte to a
\* two-byte type, which the translator refuses.
PlanEntries ==
    {[holder |-> PlaceHolderNew("a", 1, 1, 2), decoder |-> Decoder(<<"a">>, "UnsignedU8", FALSE)],
     [holder |-> PlaceHolderNew("b", 2, 2, 3), decoder |-> Decoder(<<"b">>, "SignedI8", FALSE)],
     [holder |-> PlaceHolderNew("w", 1, 1, 3), decoder |-> Decoder(<<"w">>, "UnsignedU16", TRUE)],
     [holder |-> PlaceHolderNew("x", 2, 2, 3), decoder |-> Decoder(<<"x">>, "UnsignedU16", FALSE)]}

ReaderPlans == UNION {[1..n -> PlanEntries] : n \in 0..MaxPlan}

InitReader ==
    /\ pc = "reader"
    /\ ObjectsUnbuilt
    /\ EngineIdle
    /\ call = IdleCall
    /\ ret = NotRun
    /\ writer = IdleWriter
    /\ cipher = [key |-> <<>>, mode |-> "NONE"]
    /\ iv = <<>>
    /\ data = <<>>
    /\ encrypted = NotRun
    /\ decrypted = NotRun

\* What a step of the reader leaves alone.
ReaderOnly ==
    UNCHANGED <<pc, chamber, pair, call, writer, aesVars, cacheVars, carrierVars>>

\* The reader moves to Failed: the capsule is marked and the error returned.
ReaderFails(error) ==
    /\ reader' = [reader EXCEPT !.state = "Failed"]
    /\ capsule' = fail(capsule)
    /\ ret' = error

ReaderStart ==
    /\ reader = Unbuilt
    /\ \E frame \in Frames, plan \in ReaderPlans :
           /\ capsule' = new_upstream(frame)
           /\ reader' = ReaderNew(Config, plan)
    /\ UNCHANGED ret
    /\ ReaderOnly

ExpectHead ==
    /\ reader # Unbuilt
    /\ reader.state = "ExpectHead"
    /\ LET checked == expect_head(reader.config, capsule.bytes)
       IN  IF IsOk(checked)
           THEN /\ reader' = [reader EXCEPT !.state =
                                 IF Len(reader.plan) = 0 THEN "ExpectChecksum"
                                 ELSE "ExtractFields"]
                /\ UNCHANGED <<capsule, ret>>
           ELSE ReaderFails(checked)
    /\ ReaderOnly

ExtractFields ==
    /\ reader # Unbuilt
    /\ reader.state = "ExtractFields"
    /\ LET field == extract_field(reader.plan[reader.next], capsule.bytes)
       IN  IF IsOk(field)
           THEN /\ capsule' = append_fields(capsule, <<field.val>>)
                /\ reader' = [reader EXCEPT !.next = reader.next + 1,
                                            !.state =
                                 IF reader.next = Len(reader.plan) THEN "ExpectChecksum"
                                 ELSE "ExtractFields"]
                /\ UNCHANGED ret
           ELSE ReaderFails(field)
    /\ ReaderOnly

ExpectChecksum ==
    /\ reader # Unbuilt
    /\ reader.state = "ExpectChecksum"
    /\ LET checked == expect_checksum(reader.config, capsule.bytes)
       IN  IF IsOk(checked)
           THEN /\ reader' = [reader EXCEPT !.state = "ExpectTail"]
                /\ UNCHANGED <<capsule, ret>>
           ELSE ReaderFails(checked)
    /\ ReaderOnly

ExpectTail ==
    /\ reader # Unbuilt
    /\ reader.state = "ExpectTail"
    /\ LET checked == expect_tail(reader.config, capsule.bytes)
       IN  IF IsOk(checked)
           THEN /\ reader' = [reader EXCEPT !.state = "Done"]
                /\ ret' = Ok(<<>>)
                /\ UNCHANGED capsule
           ELSE ReaderFails(checked)
    /\ ReaderOnly

NextReader ==
    \/ ReaderStart
    \/ ExpectHead
    \/ ExtractFields
    \/ ExpectChecksum
    \/ ExpectTail

SpecReader == InitReader /\ [][NextReader]_vars

\* The fields the first n PlaceHolders of the plan give, in plan order.
RECURSIVE ExtractedFields(_, _, _)
ExtractedFields(plan, frame, n) ==
    IF n = 0 THEN <<>>
    ELSE Append(ExtractedFields(plan, frame, n - 1), extract_field(plan[n], frame).val)

\* The first n PlaceHolders of the plan all translate.
FieldsPass(plan, frame, n) == \A i \in 1..n : IsOk(extract_field(plan[i], frame))

HeadPasses(frame) == frame[1] = 104

TailPasses(frame) == frame[Len(frame)] = 22

\* The two checksum bytes are the CRC of the three bytes before them, high
\* byte first or low byte first.
ChecksumPasses(frame) ==
    LET crc == crc16_modbus(SubSeq(frame, 1, 3))
    IN  \/ (frame[4] * 256) + frame[5] = crc
        \/ (frame[5] * 256) + frame[4] = crc

\* C22: the reader reaches Done only after the head check, the extraction of
\* every PlaceHolder in plan order, the checksum check and the tail check have
\* all passed, in that order; the first failing step moves it to Failed with
\* the capsule's success flag false, and no field is appended after a failure,
\* so that a head mismatch leaves the field list empty.
C22_ReaderOrder ==
    reader # Unbuilt =>
        LET frame  == capsule.bytes
            plan   == reader.plan
            all    == Len(plan)
            fields == capsule.field_details
        IN  /\ reader.state = "ExpectHead" => fields = <<>> /\ capsule.success
            /\ reader.state = "ExtractFields" =>
                   /\ HeadPasses(frame)
                   /\ reader.next \in 1..all
                   /\ FieldsPass(plan, frame, reader.next - 1)
                   /\ fields = ExtractedFields(plan, frame, reader.next - 1)
                   /\ capsule.success
            /\ reader.state \in {"ExpectChecksum", "ExpectTail", "Done"} =>
                   /\ HeadPasses(frame)
                   /\ FieldsPass(plan, frame, all)
                   /\ fields = ExtractedFields(plan, frame, all)
                   /\ capsule.success
            /\ reader.state \in {"ExpectTail", "Done"} => ChecksumPasses(frame)
            /\ reader.state = "Done" => TailPasses(frame) /\ ret = Ok(<<>>)
            /\ reader.state # "Done" => ~IsOk(ret)
            /\ reader.state = "Failed" =>
                   /\ ~capsule.success
                   /\ IsErr(ret)
                   /\ \/ /\ ~HeadPasses(frame)
                         /\ fields = <<>>
                         /\ ret.err.kind = "InvalidHead"
                      \/ /\ HeadPasses(frame)
                         /\ \E n \in 1..all :
                                /\ FieldsPass(plan, frame, n - 1)
                                /\ ~IsOk(extract_field(plan[n], frame))
                                /\ ret = extract_field(plan[n], frame)
                                /\ fields = ExtractedFields(plan, frame, n - 1)
                      \/ /\ HeadPasses(frame)
                         /\ FieldsPass(plan, frame, all)
                         /\ fields = ExtractedFields(plan, frame, all)
                         /\ \/ ~ChecksumPasses(frame) /\ ret.err.kind = "CrcError"
                            \/ /\ ChecksumPasses(frame)
                               /\ ~TailPasses(frame)
                               /\ ret.err.kind = "InvalidTail"

\* A frame with a little-endian checksum read to the end with two fields.
C22_Witness ==
    /\ reader # Unbuilt
    /\ reader.state = "Done"
    /\ Len(capsule.field_details) = 2
    /\ capsule.field_details[1].title = <<"w">>
    /\ capsule.field_details[2].title = <<"a">>
    /\ capsule.success
    /\ (capsule.bytes[5] * 256) + capsule.bytes[4] = crc16_modbus(SubSeq(capsule.bytes, 1, 3))
    /\ capsule.bytes[4] # capsule.bytes[5]

(***************************************************************************)
(* core/cache: DEVICE_CACHE, a moka::sync::Cache built with a time to live *)
(* and no time to idle.  get, insert and invalidate are each one atomic    *)
(* step of the concurrent cache; an entry whose time to live has elapsed   *)
(* since its insert is not returned.  The model never holds more entries   *)
(* than max_capacity (100_000), so no entry is evicted for size.           *)
(***************************************************************************)
\* Duration::from_secs(60 * 60)
time_to_live == 60 * 60

\* Cache::get under time_to_live: the entry, unless it has expired.
CacheGet(entries, unique, at) ==
    IF unique \in DOMAIN entries /\ at - entries[unique].inserted < time_to_live
    THEN Some(entries[unique].state)
    ELSE None

\* Cache::insert: the entry is written with the time of the insert.
CacheInsert(entries, unique, state, at) ==
    [k \in DOMAIN entries \cup {unique} |->
        IF k = unique THEN [state |-> state, inserted |-> at] ELSE entries[k]]

\* Cache::invalidate
CacheInvalidate(entries, unique) ==
    [k \in DOMAIN entries \ {unique} |-> entries[k]]

\* read under a cache built with time_to_idle: the read renews the entry.
read_time_to_idle(entries, unique, at) ==
    [value   |-> CacheGet(entries, unique, at),
     entries |-> IF CacheGet(entries, unique, at) # None
                 THEN CacheInsert(entries, unique, entries[unique].state, at)
                 ELSE entries]

\* cache::read: what the caller gets and the entries afterwards.
read(entries, unique, at) ==
    [value |-> CacheGet(entries, unique, at), entries |-> entries]

\* cache::store
store(entries, unique, state, at) == CacheInsert(entries, unique, state, at)

\* cache::remove
remove(entries, device_no) == CacheInvalidate(entries, device_no)

\* cache::read_size
read_size(entries) == Cardinality(DOMAIN entries)

(***************************************************************************)
(* Threads calling read, store and remove on two device keys while the     *)
(* clock advances.                                                         *)
(***************************************************************************)
(* Threads calling read, store and remove on two device keys while the     *)
(* clock advances.  Each call is one step: the cache serves one call at a  *)
(* time per key, in some order of the calls of all threads.                *)
(***************************************************************************)
NumThreads == 2

\* The clock advances by this many seconds at a time, MaxTicks times at most.
TickSeconds == 1800

MaxTicks == 2

Threads == 1..NumThreads

DeviceKeys == {"k1", "k2"}

\* The Arc<TransportCarrier> values, named by their device.
DeviceStates == {"s1", "s2"}

IdleThread == [at |-> "idle"]

\* The empty function: a cache without entries.
NoEntries == [k \in {} |-> None]

InitCache ==
    /\ pc = "cache"
    /\ cache = NoEntries
    /\ now = 0
    /\ threads = [t \in Threads |-> IdleThread]
    /\ stored = [k \in DeviceKeys |-> None]
    /\ reader = Unbuilt
    /\ CarrierIdle
    /\ ObjectsUnbuilt
    /\ call = IdleCall
    /\ ret = NotRun
    /\ writer = IdleWriter
    /\ cipher = [key |-> <<>>, mode |-> "NONE"]
    /\ iv = <<>>
    /\ data = <<>>
    /\ encrypted = NotRun
    /\ decrypted = NotRun

\* What the cache's threads leave alone.
CacheOnly == UNCHANGED <<pc, reader, callVars, aesVars, objVars, carrierVars>>

\* A read keeps what it returned, together with the state of the latest store
\* of its key not followed by a remove and whether that store is less than
\* an hour old.
Read(t) ==
    /\ \E k \in DeviceKeys :
           LET r == read(cache, k, now)
           IN  /\ cache' = r.entries
               /\ threads' = [threads EXCEPT ![t] =
                      [at |-> "read_returned", unique |-> k, value |-> r.value,
                       latest |-> IF stored[k] = None THEN None
                                  ELSE Some(stored[k][1].state),
                       fresh |-> stored[k] # None /\ now - stored[k][1].time < 3600]]
    /\ UNCHANGED <<now, stored>>
    /\ CacheOnly

Store(t) ==
    /\ \E k \in DeviceKeys, s \in DeviceStates :
           /\ cache' = store(cache, k, s, now)
           /\ stored' = [stored EXCEPT ![k] = Some([state |-> s, time |-> now])]
    /\ threads' = [threads EXCEPT ![t] = IdleThread]
    /\ UNCHANGED now
    /\ CacheOnly

Remove(t) ==
    /\ \E k \in DeviceKeys :
           /\ cache' = remove(cache, k)
           /\ stored' = [stored EXCEPT ![k] = None]
    /\ threads' = [threads EXCEPT ![t] = IdleThread]
    /\ UNCHANGED now
    /\ CacheOnly

Tick ==
    /\ now < MaxTicks * TickSeconds
    /\ now' = now + TickSeconds
    /\ UNCHANGED <<cache, threads, stored>>
    /\ CacheOnly

NextCache ==
    \/ \E t \in Threads : Read(t)
    \/ \E t \in Threads : Store(t)
    \/ \E t \in Threads : Remove(t)
    \/ Tick

SpecCache == InitCache /\ [][NextCache]_vars

\* C23: under any interleaving of store, read and remove calls, read(k)
\* returns either None or the value of the latest store(k, v) not followed by
\* remove(k), never a value stored under another key; after remove(k) and
\* before a new store(k, .) it returns None; an entry is not returned once one
\* hour has elapsed since its store, and reads do not extend that lifetime.
C23_CacheReads ==
    \A t \in Threads :
        threads[t].at = "read_returned" =>
            /\ threads[t].value # None =>
                   /\ threads[t].value = threads[t].latest
                   /\ threads[t].fresh
            /\ threads[t].latest = None => threads[t].value = None
            /\ threads[t].fresh => threads[t].value = threads[t].latest

\* Thread 1 read the entry half an hour after its store; thread 2 read the
\* same key when the hour had elapsed and got None, the entry of the other
\* key being younger.
C23_Witness ==
    /\ threads[1].at = "read_returned"
    /\ threads[1].unique = "k1"
    /\ threads[1].value = Some("s1")
    /\ threads[2].at = "read_returned"
    /\ threads[2].unique = "k1"
    /\ threads[2].value = None
    /\ threads[2].latest = Some("s1")
    /\ ~threads[2].fresh
    /\ stored["k1"] = Some([state |-> "s1", time |-> 0])
    /\ now = 3600
    /\ CacheGet(cache, "k2", now) = Some("s2")

(***************************************************************************)
(* PlaceHolder::new and PlaceHolder::capacity.  A usize is 64 bits wide:   *)
(* it is written as four 16-bit limbs, the most significant first.         *)
(***************************************************************************)
MaxOffset == 4

\* A small value as a usize.
Usize(n) == <<0, 0, 0, n>>

\* a.wrapping_sub(b) for small a < b: 2^64 - (b - a).
UsizeWrappedSub(a, b) == <<65535, 65535, 65535, 65536 - (b - a)>>

\* self.end_index - self.start_index: the difference, or on overflow a panic
\* (overflow checks on) or the wrapped difference (overflow checks off).
capacity(holder) ==
    IF holder.end_index >= holder.start_index
    THEN {Ok(Usize(holder.end_index - holder.start_index))}
    ELSE {Panic, Ok(UsizeWrappedSub(holder.end_index, holder.start_index))}

HolderCalls ==
    {[fn |-> "PlaceHolder::new", tag |-> tag, pos |-> pos,
      start_index |-> s, end_index |-> e] :
        tag \in {"a", "b"}, pos \in 0..1, s \in 0..MaxOffset, e \in 0..MaxOffset}

InitHolder ==
    /\ pc = "call"
    /\ call \in HolderCalls
    /\ ret = NotRun
    /\ writer = IdleWriter
    /\ cipher = [key |-> <<>>, mode |-> "NONE"]
    /\ iv = <<>>
    /\ data = <<>>
    /\ encrypted = NotRun
    /\ decrypted = NotRun
    /\ ObjectsUnbuilt
    /\ EngineIdle

\* The holder is built: ret holds it.
PlaceHolderNewCall ==
    /\ pc = "call"
    /\ ret' = PlaceHolderNew(call.tag, call.pos, call.start_index, call.end_index)
    /\ pc' = "built"
    /\ UNCHANGED <<call, writer, aesVars, objVars, engineVars>>

\* capacity() of the holder built: call keeps the holder, ret the outcome.
Capacity ==
    /\ pc = "built"
    /\ call' = [fn |-> "PlaceHolder::capacity", holder |-> ret]
    /\ ret' \in capacity(ret)
    /\ pc' = "returned"
    /\ UNCHANGED <<writer, aesVars, objVars, engineVars>>

NextHolder == PlaceHolderNewCall \/ Capacity

SpecHolder == InitHolder /\ [][NextHolder]_vars

\* C24: every PlaceHolder that PlaceHolder::new constructs has
\* end_index >= start_index, and capacity() returns end_index - start_index,
\* a non-negative count, without overflow.
C24_HolderCapacity ==
    /\ pc = "built" => ret.end_index >= ret.start_index
    /\ pc = "returned" =>
           /\ call.holder.end_index >= call.holder.start_index
           /\ ret = Ok(Usize(call.holder.end_index - call.holder.start_index))

(***************************************************************************)
(* Claims about EncodingParams::to_bytes                                   *)
(***************************************************************************)
\* What the same definition emits with swap = false.
EmittedUnswapped == to_bytes([call.definition EXCEPT !.swap = FALSE], call.input)

\* C25: with swap = true, to_bytes emits the encoded field with its byte
\* order reversed, so that reversing the emitted bytes again gives back the
\* bytes emitted with swap = false; the individual byte values are unchanged.
C25_SwapReversesByteOrder ==
    (/\ pc = "returned"
     /\ call.fn = "to_bytes"
     /\ call.definition.swap
     /\ IsOk(ret)) =>
        /\ IsOk(EmittedUnswapped)
        /\ Reverse(ret.val) = EmittedUnswapped.val

\* The bytes the definition encodes before the length is adjusted.
EncodedBytes ==
    IF Len(call.input) # 0 THEN hex_to_bytes(call.input).val
    ELSE IF Len(call.definition.default_hex) # 0
    THEN hex_to_bytes(call.definition.default_hex).val
    ELSE IF Len(call.definition.default_value) # 0
    THEN hex_to_bytes(call.definition.default_value).val
    ELSE <<>>

\* b is a with every byte put through the swap step, or a itself without swap.
AfterSwapStep(a, b) ==
    /\ Len(b) = Len(a)
    /\ \A i \in 1..Len(a) :
           b[i] = IF call.definition.swap THEN reverse_bits(a[i]) ELSE a[i]

\* C26: when byte_length() is N > 0, every successful to_bytes call returns
\* exactly N bytes: an encoding longer than N keeps only its last N bytes, a
\* shorter one is left-padded with 0x00 bytes; when byte_length() is 0 the
\* encoded length is left unchanged.
C26_ByteLength ==
    (pc = "returned" /\ call.fn = "to_bytes" /\ IsOk(ret)) =>
        LET n == call.definition.byte_length
            e == EncodedBytes
        IN  /\ n > 0 => Len(ret.val) = n
            /\ n = 0 => Len(ret.val) = Len(e)
            /\ (n > 0 /\ Len(e) >= n) =>
                   AfterSwapStep(SubSeq(e, (Len(e) - n) + 1, Len(e)), ret.val)
            /\ (n > 0 /\ Len(e) < n) =>
                   /\ \A i \in 1..(n - Len(e)) : ret.val[i] = 0
                   /\ AfterSwapStep(e, SubSeq(ret.val, (n - Len(e)) + 1, n))

\* 0x1234 declared one byte wide comes out as 0x34; the same call declared
\* three bytes wide would come out as 00 12 34.
C26_Witness ==
    /\ pc = "returned"
    /\ call.fn = "to_bytes"
    /\ call.input = <<"1", "2", "3", "4">>
    /\ call.definition.byte_length = 1
    /\ ~call.definition.swap
    /\ ret = Ok(<<52>>)
    /\ to_bytes([call.definition EXCEPT !.byte_length = 3], call.input) = Ok(<<0, 18, 52>>)

(***************************************************************************)
(* utils/timestamp_util: BCD bytes to date and time strings                *)
(***************************************************************************)
YEAR_PREFIX == <<"2", "0">>

\* &s[a..b] of a string, 0-based, b exclusive.
Str(s, a, b) == SubSeq(s, a + 1, b)

convert_to_year(timestamp) ==
    IF Len(timestamp) >= 2 THEN YEAR_PREFIX \o Str(timestamp, 0, 2)
    ELSE timestamp

convert_to_year_month(timestamp) ==
    IF Len(timestamp) >= 4
    THEN YEAR_PREFIX \o Str(timestamp, 0, 2) \o <<"-">> \o Str(timestamp, 2, 4)
    ELSE timestamp

convert_to_year_month_day(timestamp) ==
    IF Len(timestamp) >= 6
    THEN YEAR_PREFIX \o Str(timestamp, 0, 2) \o <<"-">> \o Str(timestamp, 2, 4)
             \o <<"-">> \o Str(timestamp, 4, 6)
    ELSE timestamp

convert_to_year_month_day_hour(timestamp) ==
    IF Len(timestamp) >= 8
    THEN YEAR_PREFIX \o Str(timestamp, 0, 2) \o <<"-">> \o Str(timestamp, 2, 4)
             \o <<"-">> \o Str(timestamp, 4, 6) \o <<" ">> \o Str(timestamp, 6, 8)
    ELSE timestamp

convert_to_year_month_day_hour_min(timestamp) ==
    IF Len(timestamp) >= 10
    THEN YEAR_PREFIX \o Str(timestamp, 0, 2) \o <<"-">> \o Str(timestamp, 2, 4)
             \o <<"-">> \o Str(timestamp, 4, 6) \o <<" ">> \o Str(timestamp, 6, 8)
             \o <<":">> \o Str(timestamp, 8, 10)
    ELSE timestamp

convert_to_year_month_day_hour_min_sec(timestamp) ==
    IF Len(timestamp) >= 12
    THEN YEAR_PREFIX \o Str(timestamp, 0, 2) \o <<"-">> \o Str(timestamp, 2, 4)
             \o <<"-">> \o Str(timestamp, 4, 6) \o <<" ">> \o Str(timestamp, 6, 8)
             \o <<":">> \o Str(timestamp, 8, 10) \o <<":">> \o Str(timestamp, 10, 12)
    ELSE timestamp

convert_to_hour_min_sec(timestamp) ==
    IF Len(timestamp) >= 6
    THEN Str(timestamp, 0, 2) \o <<":">> \o Str(timestamp, 2, 4)
             \o <<":">> \o Str(timestamp, 4, 6)
    ELSE timestamp

\* str::starts_with
StartsWith(s, prefix) ==
    Len(s) >= Len(prefix) /\ SubSeq(s, 1, Len(prefix)) = prefix

\* timestamp_util::convert
timestamp_convert(bcd_bytes, timestamp_type) ==
    LET bcd_str == bytes_to_hex(bcd_bytes).val
        ts == IF StartsWith(bcd_str, YEAR_PREFIX)
              THEN SubSeq(bcd_str, Len(YEAR_PREFIX) + 1, Len(bcd_str))
              ELSE bcd_str
    IN  IF ~is_bcd(bcd_str) THEN Err([kind |-> "NotBcd", text |-> bcd_str])
        ELSE Ok(CASE timestamp_type = "Year" -> convert_to_year(ts)
                  [] timestamp_type = "YearMonth" -> convert_to_year_month(ts)
                  [] timestamp_type = "YearMonthDay" -> convert_to_year_month_day(ts)
                  [] timestamp_type = "YearMonthDayHour" ->
                         convert_to_year_month_day_hour(ts)
                  [] timestamp_type = "YearMonthDayHourMin" ->
                         convert_to_year_month_day_hour_min(ts)
                  [] timestamp_type = "YearMonthDayHourMinSec" ->
                         convert_to_year_month_day_hour_min_sec(ts)
                  [] timestamp_type = "HourMinSec" -> convert_to_hour_min_sec(ts))

to_year(bcd_bytes) == timestamp_convert(bcd_bytes, "Year")

to_year_month(bcd_bytes) == timestamp_convert(bcd_bytes, "YearMonth")

to_year_month_day(bcd_bytes) == timestamp_convert(bcd_bytes, "YearMonthDay")

to_year_month_day_hour(bcd_bytes) == timestamp_convert(bcd_bytes, "YearMonthDayHour")

to_year_month_day_hour_min(bcd_bytes) ==
    timestamp_convert(bcd_bytes, "YearMonthDayHourMin")

to_year_month_day_hour_min_sec(bcd_bytes) ==
    timestamp_convert(bcd_bytes, "YearMonthDayHourMinSec")

to_hour_min_sec(bcd_bytes) == timestamp_convert(bcd_bytes, "HourMinSec")

(***************************************************************************)
(* Timestamps of up to MaxBcdBytes bytes: 0x00, 0x05, 0x12, 0x20, 0x23,     *)
(* 0x59, 0x99 and the byte 0x1A, which is not BCD.                         *)
(***************************************************************************)
MaxBcdBytes == 4

BcdBytes == {0, 5, 18, 32, 35, 89, 153, 26}

TimestampInputs == UNION {[1..n -> BcdBytes] : n \in 1..MaxBcdBytes}

TimestampCalls ==
    {[fn |-> f, bcd_bytes |-> b] :
        f \in {"to_year_month_day", "to_hour_min_sec", "to_year_month",
               "to_year_month_day_hour_min_sec"},
        b \in TimestampInputs}

InitTime ==
    /\ pc = "call"
    /\ call \in TimestampCalls
    /\ ret = NotRun
    /\ writer = IdleWriter
    /\ cipher = [key |-> <<>>, mode |-> "NONE"]
    /\ iv = <<>>
    /\ data = <<>>
    /\ encrypted = NotRun
    /\ decrypted = NotRun
    /\ ObjectsUnbuilt
    /\ EngineIdle

ToYearMonth ==
    /\ pc = "call"
    /\ call.fn = "to_year_month"
    /\ ret' = to_year_month(call.bcd_bytes)
    /\ Returns

ToYearMonthDay ==
    /\ pc = "call"
    /\ call.fn = "to_year_month_day"
    /\ ret' = to_year_month_day(call.bcd_bytes)
    /\ Returns

ToYearMonthDayHourMinSec ==
    /\ pc = "call"
    /\ call.fn = "to_year_month_day_hour_min_sec"
    /\ ret' = to_year_month_day_hour_min_sec(call.bcd_bytes)
    /\ Returns

ToHourMinSec ==
    /\ pc = "call"
    /\ call.fn = "to_hour_min_sec"
    /\ ret' = to_hour_min_sec(call.bcd_bytes)
    /\ Returns

NextTime ==
    \/ ToYearMonth
    \/ ToYearMonthDay
    \/ ToYearMonthDayHourMinSec
    \/ ToHourMinSec

SpecTime == InitTime /\ [][NextTime]_vars

\* Both nibbles of the byte are decimal digits.
IsBcdByte(b) == b \div 16 <= 9 /\ b % 16 <= 9

\* The two decimal digits of a BCD byte.
TwoDigits(b) == <<UpperDigits[(b \div 16) + 1], UpperDigits[(b % 16) + 1]>>

\* C27: for every BCD date given as the three bytes yy mm dd,
\* to_year_month_day returns "20yy-mm-dd", and the four bytes 20 yy mm dd give
\* the same string; to_hour_min_sec returns "hh:mm:ss" for every three BCD
\* bytes hh mm ss; input that is not all decimal digits fails with NotBcd.
C27_BcdDateTime ==
    (pc = "returned" /\ call.fn \in {"to_year_month_day", "to_hour_min_sec"}) =>
        LET b == call.bcd_bytes
            n == Len(b)
        IN  /\ (\E i \in 1..n : ~IsBcdByte(b[i])) =>
                   (IsErr(ret) /\ ret.err.kind = "NotBcd")
            /\ (call.fn = "to_year_month_day" /\ n = 3
                    /\ \A i \in 1..n : IsBcdByte(b[i])) =>
                   ret = Ok(<<"2", "0">> \o TwoDigits(b[1]) \o <<"-">> \o TwoDigits(b[2])
                                \o <<"-">> \o TwoDigits(b[3]))
            /\ (call.fn = "to_year_month_day" /\ n = 4 /\ b[1] = 32
                    /\ \A i \in 1..n : IsBcdByte(b[i])) =>
                   ret = to_year_month_day(SubSeq(b, 2, 4))
            /\ (call.fn = "to_hour_min_sec" /\ n = 3
                    /\ \A i \in 1..n : IsBcdByte(b[i])) =>
                   ret = Ok(TwoDigits(b[1]) \o <<":">> \o TwoDigits(b[2])
                                \o <<":">> \o TwoDigits(b[3]))

(***************************************************************************)
(* hex_util: hex_to_u32, hex_to_i16, hex_to_i32.  A u32 is the record of   *)
(* its 16-bit halves; an i16 and an i32 are integers.                      *)
(***************************************************************************)
\* u32::from_str_radix(v, 16) on a non-empty string of at most 8 characters.
from_str_radix_16_u32(v) ==
    LET digits == IF v[1] = "+" THEN Tail(v) ELSE v
        n == Len(digits)
    IN  IF n = 0 \/ \E i \in 1..n : ~IsHexChar(digits[i])
        THEN Err([kind |-> "HexParseError"])
        ELSE IF n <= 4
        THEN Ok([hi |-> 0, lo |-> RadixValue(digits, n)])
        ELSE Ok([hi |-> RadixValue(SubSeq(digits, 1, n - 4), n - 4),
                 lo |-> RadixValue(SubSeq(digits, n - 3, n), 4)])

\* `unsigned_val as i16`
AsI16(u) == IF u >= 32768 THEN u - 65536 ELSE u

\* `unsigned_val as i32`
AsI32(u) ==
    IF u.hi >= 32768 THEN ((u.hi - 65536) * 65536) + u.lo ELSE (u.hi * 65536) + u.lo

hex_to_u32(hex) ==
    IF ~IsOk(ensure_is_machine_code(hex)) THEN ensure_is_machine_code(hex)
    ELSE LET v == clean_hex_str(hex)
         IN  IF Len(v) > 8
             THEN Err([kind |-> "HexLengthError", max_chars |-> 8, actual_chars |-> Len(v)])
             ELSE IF Len(v) = 0 THEN Ok([hi |-> 0, lo |-> 0])
             ELSE from_str_radix_16_u32(v)

hex_to_i16(hex) ==
    IF ~IsOk(ensure_is_machine_code(hex)) THEN ensure_is_machine_code(hex)
    ELSE LET v == clean_hex_str(hex)
         IN  IF Len(v) > 4
             THEN Err([kind |-> "HexLengthError", max_chars |-> 4, actual_chars |-> Len(v)])
             ELSE IF Len(v) = 0 THEN Ok(0)
             ELSE LET unsigned_val == from_str_radix_16(v)
                  IN  IF ~IsOk(unsigned_val) THEN unsigned_val
                      ELSE Ok(AsI16(unsigned_val.val))

hex_to_i32(hex) ==
    IF ~IsOk(ensure_is_machine_code(hex)) THEN ensure_is_machine_code(hex)
    ELSE LET v == clean_hex_str(hex)
         IN  IF Len(v) > 8
             THEN Err([kind |-> "HexLengthError", max_chars |-> 8, actual_chars |-> Len(v)])
             ELSE IF Len(v) = 0 THEN Ok(0)
             ELSE LET unsigned_val == from_str_radix_16_u32(v)
                  IN  IF ~IsOk(unsigned_val) THEN unsigned_val
                      ELSE Ok(AsI32(unsigned_val.val))

(***************************************************************************)
(* The strings the three parsers are called with: a run of characters,     *)
(* with or without the 0x prefix and surrounding blanks.                   *)
(***************************************************************************)
MaxDigits == 9

\* n characters: first, then rest repeated.
RECURSIVE Repeated(_, _)
Repeated(c, n) == IF n = 0 THEN <<>> ELSE <<c>> \o Repeated(c, n - 1)

Run(first, rest, n) == IF n = 0 THEN <<>> ELSE <<first>> \o Repeated(rest, n - 1)

\* Runs of hexadecimal digits in both letter cases, of decimal digits, and of
\* a character that is no digit.
DigitRuns ==
    {Run(p[1], p[2], n) :
        p \in {<<"F", "F">>, <<"1", "0">>, <<"8", "0">>, <<"7", "f">>, <<"a", "B">>,
               <<"0", "9">>, <<"G", "0">>},
        n \in 0..MaxDigits}

HexPrefixes == {<<>>, <<"0", "x">>, <<"0", "X">>}

Blanks == {<<>>, <<" ">>}

ParseCalls ==
    {[fn |-> f, hex |-> before \o prefix \o run \o after] :
        f \in {"hex_to_u32", "hex_to_i16", "hex_to_i32"},
        before \in Blanks, prefix \in HexPrefixes, run \in DigitRuns, after \in Blanks}

InitParse ==
    /\ pc = "call"
    /\ call \in ParseCalls
    /\ ret = NotRun
    /\ writer = IdleWriter
    /\ cipher = [key |-> <<>>, mode |-> "NONE"]
    /\ iv = <<>>
    /\ data = <<>>
    /\ encrypted = NotRun
    /\ decrypted = NotRun
    /\ ObjectsUnbuilt
    /\ EngineIdle

HexToU32 ==
    /\ pc = "call"
    /\ call.fn = "hex_to_u32"
    /\ ret' = hex_to_u32(call.hex)
    /\ Returns

HexToI16 ==
    /\ pc = "call"
    /\ call.fn = "hex_to_i16"
    /\ ret' = hex_to_i16(call.hex)
    /\ Returns

HexToI32 ==
    /\ pc = "call"
    /\ call.fn = "hex_to_i32"
    /\ ret' = hex_to_i32(call.hex)
    /\ Returns

NextParse == HexToU32 \/ HexToI16 \/ HexToI32

SpecParse == InitParse /\ [][NextParse]_vars

\* The value of at most four hexadecimal digits.
RECURSIVE ValueOfDigits(_)
ValueOfDigits(d) ==
    IF Len(d) = 0 THEN 0
    ELSE (16 * ValueOfDigits(SubSeq(d, 1, Len(d) - 1))) + HexVal(d[Len(d)])

\* The high and the low 16 bits of the value of at most eight digits.
HighHalf(d) == IF Len(d) <= 4 THEN 0 ELSE ValueOfDigits(SubSeq(d, 1, Len(d) - 4))

LowHalf(d) ==
    IF Len(d) <= 4 THEN ValueOfDigits(d) ELSE ValueOfDigits(SubSeq(d, Len(d) - 3, Len(d)))

\* C28: hex_to_u32, hex_to_i16 and hex_to_i32 trim surrounding whitespace and
\* strip a leading 0x or 0X, then return the value of every remaining string
\* of hexadecimal digits (either case, odd or even count) up to the native
\* width (8, 4, 8 digits), the signed ones as two's complement; the empty
\* string gives 0 and a longer string gives HexLengthError.
C28_HexToInt ==
    (pc = "returned" /\ call.fn \in {"hex_to_u32", "hex_to_i16", "hex_to_i32"}) =>
        LET v == clean_hex_str(call.hex)
            width == IF call.fn = "hex_to_i16" THEN 4 ELSE 8
        IN  (\A i \in 1..Len(v) : IsHexChar(v[i])) =>
                IF Len(v) > width
                THEN IsErr(ret) /\ ret.err.kind = "HexLengthError"
                ELSE CASE call.fn = "hex_to_u32" ->
                              ret = Ok([hi |-> HighHalf(v), lo |-> LowHalf(v)])
                       [] call.fn = "hex_to_i16" ->
                              ret = Ok(IF LowHalf(v) >= 32768 THEN LowHalf(v) - 65536
                                       ELSE LowHalf(v))
                       [] call.fn = "hex_to_i32" ->
                              ret = Ok(IF HighHalf(v) >= 32768
                                       THEN ((HighHalf(v) - 65536) * 65536) + LowHalf(v)
                                       ELSE (HighHalf(v) * 65536) + LowHalf(v))

\* The step constructs a new downstream capsule from the capsule.
ConstructsNewCapsule == capsule' = new_downstream_from_upstream(capsule)

\* C29: a RawCapsule's success flag is true at construction and, once fail()
\* has been called, stays false under every later capsule method; no method
\* sets it back to true, and no method other than fail() changes it.
C29_SuccessFlag ==
    [][/\ (capsule = Unbuilt /\ capsule' # Unbuilt) => capsule'.success
       /\ (capsule # Unbuilt /\ ConstructsNewCapsule) => capsule'.success
       /\ (capsule # Unbuilt /\ ~ConstructsNewCapsule) =>
              /\ capsule' # Unbuilt
              /\ ~capsule.success => ~capsule'.success
              /\ capsule'.success # capsule.success => capsule' = fail(capsule)]_vars

\* A failed upstream capsule on which the setters have acted since its
\* construction.
C29_Witness ==
    /\ capsule # Unbuilt
    /\ ~capsule.success
    /\ capsule.direction = "Upstream"
    /\ capsule.device_id # None
    /\ capsule.cmd # None
    /\ Len(capsule.field_details) = 2
    /\ capsule.temp_bytes # <<>>
    /\ capsule.hex = <<"A", "B", "C", "D">>

(***************************************************************************)
(* core/parts/transport_carrier: TransportCarrier and its Transport impl   *)
(***************************************************************************)
\* TransportCarrier::default(), derived: every Option is None, the i8 is 0.
TransportCarrierDefault ==
    [device_no |-> None, device_no_padding |-> None, device_no_length |-> None,
     protocol_version |-> None, report_type |-> None, control_field |-> None,
     device_type |-> None, factory_code |-> None, upstream_count |-> None,
     downstream_count |-> None, cipher_slot |-> 0]

new_with_device_no(device_no, device_no_bytes, device_no_padding, device_no_padding_bytes) ==
    [device_no |-> Some(TransportPairNew(device_no, device_no_bytes)),
     device_no_padding |->
         Some(TransportPairNew(device_no_padding, device_no_padding_bytes)),
     device_no_length |-> None, control_field |-> None, report_type |-> None,
     protocol_version |-> None, device_type |-> None, factory_code |-> None,
     upstream_count |-> None, downstream_count |-> None, cipher_slot |-> -1]

\* set_device_no_length, set_report_type, set_control_field, set_device_no,
\* set_device_no_padding, set_protocol_version, set_device_type,
\* set_factory_code, set_upstream_count, set_downstream_count: each builds the
\* pair and assigns the field of its name.
set_pair_field(c, field, hex, bytes) ==
    [c EXCEPT ![field] = Some(TransportPairNew(hex, bytes))]

set_cipher_slot(c, cipher_slot) == [c EXCEPT !.cipher_slot = cipher_slot]

\* impl Transport for TransportCarrier
cipher_slot(c) == c.cipher_slot

\* Transport::use_cipher, the provided method
use_cipher(c) == cipher_slot(c) >= 0

\* The fields the pair setters assign.
PairFields ==
    {"device_no_length", "report_type", "control_field", "device_no",
     "device_no_padding", "protocol_version", "device_type", "factory_code",
     "upstream_count", "downstream_count"}

\* The i8 values set_cipher_slot is called with.
CipherSlots == {-128, -1, 0, 1, 127}

InitCarrier ==
    /\ pc = "carrier"
    /\ CarrierIdle
    /\ reader = Unbuilt
    /\ CacheIdle
    /\ ObjectsUnbuilt
    /\ call = IdleCall
    /\ ret = NotRun
    /\ writer = IdleWriter
    /\ cipher = [key |-> <<>>, mode |-> "NONE"]
    /\ iv = <<>>
    /\ data = <<>>
    /\ encrypted = NotRun
    /\ decrypted = NotRun

\* What a method of the carrier leaves alone.
CarrierOnly == UNCHANGED <<pc, reader, cacheVars, callVars, aesVars, objVars>>

NewWithDeviceNo ==
    /\ carrier = Unbuilt
    /\ carrier' = new_with_device_no(<<"0", "1">>, <<1>>, <<"0", "0", "0", "1">>, <<0, 1>>)
    /\ UNCHANGED slot_set
    /\ CarrierOnly

CarrierDefault ==
    /\ carrier = Unbuilt
    /\ carrier' = TransportCarrierDefault
    /\ UNCHANGED slot_set
    /\ CarrierOnly

SetPairField ==
    /\ carrier # Unbuilt
    /\ \E field \in PairFields : carrier' = set_pair_field(carrier, field, <<"0", "2">>, <<2>>)
    /\ UNCHANGED slot_set
    /\ CarrierOnly

SetCipherSlot ==
    /\ carrier # Unbuilt
    /\ \E slot \in CipherSlots : carrier' = set_cipher_slot(carrier, slot)
    /\ slot_set' = TRUE
    /\ CarrierOnly

NextCarrier ==
    \/ NewWithDeviceNo
    \/ CarrierDefault
    \/ SetPairField
    \/ SetCipherSlot

SpecCarrier == InitCarrier /\ [][NextCarrier]_vars

\* C30: a TransportCarrier reports use_cipher() == true exactly when its
\* cipher_slot is >= 0, and every carrier on which set_cipher_slot has never
\* been called has cipher_slot == -1, however it was created and whatever
\* other setters were called on it.
C30_NoCipherUntilSet ==
    carrier # Unbuilt =>
        /\ use_cipher(carrier) <=> carrier.cipher_slot >= 0
        /\ ~slot_set => (carrier.cipher_slot = -1 /\ ~use_cipher(carrier))

====
